---- MODULE Spec2Model ----
(***************************************************************************)
(* Model of pytmux (src/tmux.py): the FormattedString run list, the        *)
(* ConsoleWindow terminal emulator (write path, control sequences, scroll   *)
(* region, resize/reflow, scrollback, history cap).                         *)
(*                                                                          *)
(* Conventions.  Python lists are 0-based and accept negative indices; the  *)
(* model keeps the source's 0-based offsets and cursor and goes through     *)
(* PyIdx / PyValid at every subscript, so that a negative offset reads the  *)
(* element Python would read and an out-of-range subscript raises           *)
(* IndexError.  An exception leaves the object as mutated so far and is     *)
(* recorded in the field err; ScreenManager.main_loop does not catch it, so *)
(* no further operation runs on a console whose err is not "ok".            *)
(***************************************************************************)
EXTENDS Integers, Sequences, FiniteSets, TLC

(***************************************************************************)
(* Bounds of the model.                                                     *)
(***************************************************************************)
HistorySize == 3
MaxH == 5
MaxW == 4
MaxOps == 4

Heights == {2, 3, MaxH}
Widths == {2, MaxW}

(***************************************************************************)
(* Characters.  A string is a sequence of one-character strings; the C0     *)
(* controls the write path tests for are named.                             *)
(***************************************************************************)
ESC == "ESC"
BEL == "BEL"
BS == "BS"
HT == "HT"
LF == "LF"
CR == "CR"
SP == " "

Digits == {"0", "1", "2", "3", "4", "5", "6", "7", "8", "9"}

DigitVal(d) ==
    CASE d = "0" -> 0 [] d = "1" -> 1 [] d = "2" -> 2 [] d = "3" -> 3
      [] d = "4" -> 4 [] d = "5" -> 5 [] d = "6" -> 6 [] d = "7" -> 7
      [] d = "8" -> 8 [] d = "9" -> 9

\* '%d' % n
RECURSIVE DecStr(_)
DecStr(n) ==
    LET d == CHOOSE ch \in Digits : DigitVal(ch) = n % 10
    IN  IF n < 10 THEN <<d>> ELSE Append(DecStr(n \div 10), d)

Max(a, b) == IF a >= b THEN a ELSE b
Min(a, b) == IF a <= b THEN a ELSE b

(***************************************************************************)
(* Python subscripts and slices.                                            *)
(***************************************************************************)
\* list[i] with i < 0 counts from the end
PyIdx(i, n) == IF i < 0 THEN i + n ELSE i

\* list[i] does not raise IndexError
PyValid(i, n) == PyIdx(i, n) >= 0 /\ PyIdx(i, n) < n

\* slice.indices(n) for one bound of a step-1 slice
PyClamp(v, n) == IF v < 0 THEN Max(v + n, 0) ELSE Min(v, n)

\* s[a:b] on a str or a list (step 1)
PySlice(s, a, b) ==
    LET lo == PyClamp(a, Len(s))
        hi == PyClamp(b, Len(s))
    IN  IF hi <= lo THEN <<>> ELSE SubSeq(s, lo + 1, hi)

\* s[a:]
PySliceFrom(s, a) == PySlice(s, a, Len(s))

\* s[:b]
PySliceTo(s, b) == PySlice(s, 0, b)

\* fillchar * n   (n <= 0 gives the empty string)
Repeat(ch, n) == [i \in 1..Max(n, 0) |-> ch]

\* str.rstrip() : drop trailing whitespace
RECURSIVE StrRstrip(_)
StrRstrip(t) ==
    IF t # <<>> /\ t[Len(t)] = SP THEN StrRstrip(SubSeq(t, 1, Len(t) - 1)) ELSE t

(***************************************************************************)
(* FormattedString: a list of runs (text, attr, fg, bg).  attr is the set   *)
(* of curses attribute bits that are on; fg/bg are -1 (default) or 0..7.    *)
(***************************************************************************)
Run(text, attr, fg, bg) == [text |-> text, attr |-> attr, fg |-> fg, bg |-> bg]

\* FormattedString.__init__
FormattedString(text, attr, fg, bg) ==
    IF text # <<>> THEN <<Run(text, attr, fg, bg)>> ELSE <<>>

EmptyFS == <<>>

\* FormattedString(text) with the default style
PlainFS(text) == FormattedString(text, {}, -1, -1)

\* FormattedString.__len__
RECURSIVE FSLen(_)
FSLen(s) == IF s = <<>> THEN 0 ELSE Len(s[1].text) + FSLen(Tail(s))

\* FormattedString.__bool__
FSBool(s) == s # <<>>

SameStyle(r1, r2) == r1.attr = r2.attr /\ r1.fg = r2.fg /\ r1.bg = r2.bg

\* FormattedString._add : append the runs of o, merging equal styles
RECURSIVE FSAddRuns(_, _)
FSAddRuns(self, o) ==
    IF o = <<>> THEN self
    ELSE LET r == o[1]
             n == Len(self)
             merged == IF n > 0 /\ SameStyle(self[n], r)
                       THEN [self EXCEPT ![n].text = self[n].text \o r.text]
                       ELSE Append(self, r)
         IN  FSAddRuns(merged, Tail(o))

\* FormattedString.__add__
FSAdd(self, s) ==
    IF ~FSBool(self) THEN s
    ELSE IF ~FSBool(s) THEN self
    ELSE FSAddRuns(self, s)

\* FormattedString.__getitem__ with a slice: the loop over the runs
RECURSIVE FSSliceLoop(_, _, _, _)
FSSliceLoop(els, start, stop, o) ==
    IF els = <<>> THEN o
    ELSE LET r == els[1]
             n == Len(r.text)
         IN  IF start >= n
             THEN FSSliceLoop(Tail(els), start - n, stop - n, o)
             ELSE LET text1 == PySliceFrom(r.text, start)
                      n1 == Len(text1)
                      stop1 == stop - start
                  IN  IF stop1 <= n1
                      THEN FSAddRuns(o, FormattedString(PySliceTo(text1, stop1),
                                                        r.attr, r.fg, r.bg))
                      ELSE FSSliceLoop(Tail(els), 0, stop1 - n1,
                               FSAddRuns(o, FormattedString(text1, r.attr, r.fg, r.bg)))

\* a slice that always starts at the first character
FSSlice_FromStart(s, a, b) ==
    FSSliceLoop(s, 0, PyClamp(b, FSLen(s)), <<>>)

\* s[a:b]
FSSlice(s, a, b) ==
    FSSliceLoop(s, PyClamp(a, FSLen(s)), PyClamp(b, FSLen(s)), <<>>)

\* s[a:]
FSSliceFrom(s, a) == FSSlice(s, a, FSLen(s))

\* s[:b]
FSSliceTo(s, b) == FSSlice(s, 0, b)

\* FormattedString.ljust(n) with the default fill
FSLjust(s, n) ==
    IF n > FSLen(s) THEN FSAdd(s, PlainFS(Repeat(SP, n - FSLen(s)))) ELSE s

\* an rstrip of the last run that does not look at its background
FSRstrip_AnyBackground(o) ==
    IF o = <<>> THEN o
    ELSE LET r == o[Len(o)]
             text == StrRstrip(r.text)
         IN  IF text = <<>> THEN SubSeq(o, 1, Len(o) - 1)
             ELSE [o EXCEPT ![Len(o)].text = text]

\* FormattedString.rstrip()
RECURSIVE FSRstrip(_)
FSRstrip(o) ==
    IF o = <<>> THEN o
    ELSE LET r == o[Len(o)]
             text == StrRstrip(r.text)
         IN  IF r.bg # -1 THEN o
             ELSE IF text = <<>> THEN FSRstrip(SubSeq(o, 1, Len(o) - 1))
             ELSE [o EXCEPT ![Len(o)].text = text]

\* the characters of a FormattedString, styles dropped
RECURSIVE FSText(_)
FSText(s) == IF s = <<>> THEN <<>> ELSE s[1].text \o FSText(Tail(s))

(***************************************************************************)
(* ConsoleWindow.  A console is the record of the object's fields; every    *)
(* method is an operator from the record (and the arguments) to the record  *)
(* after the call.  A line of the buffer is [content, num], the source's    *)
(* two-element list [FormattedString, real line number].                    *)
(***************************************************************************)
(* The curses window of the console (Window.win): height rows of width      *)
(* cells, each cell a character with its style.                             *)
(***************************************************************************)
Cell(ch, attr, fg, bg) == [ch |-> ch, attr |-> attr, fg |-> fg, bg |-> bg]
BlankCell == Cell(SP, {}, -1, -1)

\* curses.newwin(height, width, ...)
BlankWin(height, width) == [y \in 1..height |-> [x \in 1..width |-> BlankCell]]

\* win.resize(height, width): the cells that remain keep their content
WinResize(win, height, width) ==
    [y \in 1..height |->
        [x \in 1..width |->
            IF y <= Len(win) /\ x <= Len(win[y]) THEN win[y][x] ELSE BlankCell]]

\* addstr (lines 51-55): win.addstr(y, x, s, attr) writes s from (y, x) on,
\* wrapping at the right margin; a position outside the window, or running
\* past the last cell, is the curses.error that addstr swallows
RECURSIVE AddStr(_, _, _, _, _, _, _)
AddStr(win, y, x, text, attr, fg, bg) ==
    IF text = <<>> THEN win
    ELSE IF ~(0 <= y /\ y < Len(win) /\ 0 <= x /\ x < Len(win[1])) THEN win
    ELSE IF x + 1 < Len(win[1])
    THEN AddStr([win EXCEPT ![y + 1][x + 1] = Cell(Head(text), attr, fg, bg)],
                y, x + 1, Tail(text), attr, fg, bg)
    ELSE AddStr([win EXCEPT ![y + 1][x + 1] = Cell(Head(text), attr, fg, bg)],
                y + 1, 0, Tail(text), attr, fg, bg)

\* add_formatted_str (lines 239-242)
RECURSIVE AddFormattedStr(_, _, _, _)
AddFormattedStr(win, y, x, s) ==
    IF s = <<>> THEN win
    ELSE AddFormattedStr(AddStr(win, y, x, s[1].text, s[1].attr, s[1].fg, s[1].bg),
                         y, x + Len(s[1].text), Tail(s))

(***************************************************************************)
Line(content, num) == [content |-> content, num |-> num]

\* ConsoleWindow.__init__
NewConsole(height, width, history_size) ==
    [ height |-> height, width |-> width, history_size |-> history_size,
      lines |-> <<Line(EmptyFS, 0)>>,
      offset |-> 0,
      cursor |-> [y |-> 0, x |-> 0],
      scroll_area |-> <<0, height - 1>>,
      attr |-> {}, fg |-> -1, bg |-> -1,
      display_offset |-> 0,
      auto_scroll |-> TRUE,
      redraw |-> TRUE,
      win |-> BlankWin(height, width),
      reply_query |-> FALSE,      \* reply_query=None
      replied |-> <<>>,           \* the strings handed to reply_query, in call order
      err |-> "ok",
      ev |-> {} ]

Ok(c) == c.err = "ok"
Raise(c, e) == [c EXCEPT !.err = e]

\* bookkeeping of the model: the code path e was taken during the current call
Mark(c, e) == [c EXCEPT !.ev = @ \cup {e}]

\* self.lines[i] and self.lines[i] = l, once PyValid(i, len(self.lines))
LineAt(c, i) == c.lines[PyIdx(i, Len(c.lines)) + 1]
SetLine(c, i, l) == [c EXCEPT !.lines[PyIdx(i, Len(c.lines)) + 1] = l]
ValidLine(c, i) == PyValid(i, Len(c.lines))

\* _check_history_size keeping the head of the buffer instead of its tail
CheckHistorySize_DropsTail(c) ==
    IF Len(c.lines) > c.history_size
    THEN LET nb == Len(c.lines) - c.history_size
         IN  Mark([c EXCEPT !.lines = PySliceTo(c.lines, c.history_size),
                            !.display_offset = Max(0, c.display_offset - nb),
                            !.offset = c.offset - nb], "trim")
    ELSE c

\* ConsoleWindow._check_history_size
CheckHistorySize(c) ==
    IF Len(c.lines) > c.history_size
    THEN LET nb == Len(c.lines) - c.history_size
         IN  Mark([c EXCEPT !.lines = PySliceFrom(c.lines, nb),
                            !.display_offset = Max(0, c.display_offset - nb),
                            !.offset = c.offset - nb], "trim")
    ELSE c

\* an _insert_newline that numbers every new row as a real line
InsertNewline_AlwaysReal(c, real) ==
    IF ~Ok(c) THEN c
    ELSE IF ~(Len(c.lines) + 1 <= c.offset + c.height) THEN Raise(c, "AssertionError")
    ELSE IF Len(c.lines) = 0 THEN Raise(c, "IndexError")
    ELSE CheckHistorySize(Mark([c EXCEPT !.lines = Append(c.lines,
                                   Line(EmptyFS, c.lines[Len(c.lines)].num + 1))],
                               "insert_newline"))

\* ConsoleWindow._insert_newline
InsertNewline(c, real) ==
    IF ~Ok(c) THEN c
    ELSE IF ~(Len(c.lines) + 1 <= c.offset + c.height) THEN Raise(c, "AssertionError")
    ELSE IF Len(c.lines) = 0 THEN Raise(c, "IndexError")
    ELSE LET last == c.lines[Len(c.lines)].num
             line_num == IF real THEN last + 1 ELSE last
         IN  CheckHistorySize(Mark([c EXCEPT !.lines = Append(c.lines, Line(EmptyFS, line_num))],
                                   "insert_newline"))

\* ConsoleWindow._remove_lastline
RemoveLastline(c) ==
    IF ~Ok(c) THEN c
    ELSE IF ~(Len(c.lines) > 0) THEN Raise(c, "AssertionError")
    ELSE Mark([c EXCEPT !.lines = SubSeq(c.lines, 1, Len(c.lines) - 1)], "remove_lastline")

\* the renumbering loop that ends _scroll_down and _scroll_up:
\*   for i in range(i, len(self.lines)): if last != lines[i][1]: num += 1 ...
\* last is <<>> for None and <<n>> for the number n
RECURSIVE Renumber(_, _, _, _)
Renumber(c, i, num, last) ==
    IF i >= Len(c.lines) THEN c
    ELSE IF ~ValidLine(c, i) THEN Raise(c, "IndexError")
    ELSE LET cur == LineAt(c, i).num
             num1 == IF last # <<cur>> THEN num + 1 ELSE num
         IN  Renumber(SetLine(c, i, Line(LineAt(c, i).content, num1)), i + 1, num1, <<cur>>)

\* _scroll_down, partial region: for i in range(i, stop): lines[i] = copy(lines[i + 1])
RECURSIVE ScrollDownShift(_, _, _)
ScrollDownShift(c, i, stop) ==
    IF i >= stop \/ ~Ok(c) THEN c
    ELSE IF ~ValidLine(c, i + 1) \/ ~ValidLine(c, i) THEN Raise(c, "IndexError")
    ELSE ScrollDownShift(SetLine(c, i, LineAt(c, i + 1)), i + 1, stop)

\* 'self.redraw = True' as the last statement of a method: reached only when
\* nothing has raised before it
SetRedraw(c) == IF Ok(c) THEN [c EXCEPT !.redraw = TRUE] ELSE c

\* _scroll_down, from line 855 on: blank the bottom row of the region and renumber
ScrollDownTail(c, real) ==
    IF ~Ok(c) THEN c
    ELSE LET bi == c.offset + c.scroll_area[2]
         IN  IF ~ValidLine(c, bi) THEN Raise(c, "IndexError")
             ELSE LET num0 == IF bi > 0 THEN LineAt(c, bi - 1).num ELSE 0
                      num == IF real THEN num0 + 1 ELSE num0
                  IN  SetRedraw(Renumber(SetLine(c, bi, Line(EmptyFS, num)), bi + 1, num, <<>>))

\* _scroll_down, lines 842-849: the scroll region is the whole viewport
ScrollDownFull(c, real) ==
    LET a == Mark([c EXCEPT !.offset = c.offset + 1], "scroll_down_full")
        b == IF a.auto_scroll THEN [a EXCEPT !.display_offset = a.offset] ELSE a
    IN  IF b.offset + b.cursor.y > Len(b.lines) - 1 THEN InsertNewline(b, real) ELSE b

\* ConsoleWindow._scroll_down
ScrollDown(c, real) ==
    IF ~Ok(c) THEN c
    ELSE LET area_top == c.scroll_area[1]
             area_down == c.scroll_area[2]
         IN  ScrollDownTail(IF area_top = 0 /\ area_down = c.height - 1
                            THEN ScrollDownFull(c, real)
                            ELSE ScrollDownShift(Mark(c, "scroll_down_region"),
                                                 c.offset + area_top,
                                                 Min(c.offset + area_down, Len(c.lines) - 1)),
                            real)

\* _scroll_up: for i in range(i, stop, -1): append or move lines[i] one row down
RECURSIVE ScrollUpShift(_, _, _)
ScrollUpShift(c, i, stop) ==
    IF i <= stop \/ ~Ok(c) THEN c
    ELSE IF ~ValidLine(c, i) THEN Raise(c, "IndexError")
    ELSE IF i = Len(c.lines) - 1
         THEN ScrollUpShift(Mark([c EXCEPT !.lines = Append(c.lines, LineAt(c, i))],
                                 "scroll_up_append"), i - 1, stop)
    ELSE IF ~ValidLine(c, i + 1) THEN Raise(c, "IndexError")
    ELSE ScrollUpShift(SetLine(c, i + 1, LineAt(c, i)), i - 1, stop)

\* _scroll_up, from line 890 on: blank the top row of the region and renumber
ScrollUpTail(c, area_top) ==
    IF ~Ok(c) THEN c
    ELSE LET ti == c.offset + area_top
         IN  IF ~ValidLine(c, ti) THEN Raise(c, "IndexError")
             ELSE LET num == IF ti > 0 THEN LineAt(c, ti - 1).num + 1 ELSE 0
                  IN  SetRedraw(Renumber(SetLine(c, ti, Line(EmptyFS, num)), ti + 1, num, <<>>))

\* ConsoleWindow._scroll_up
ScrollUp(c) ==
    IF ~Ok(c) THEN c
    ELSE LET area_top == c.scroll_area[1]
             area_down == c.scroll_area[2]
         IN  ScrollUpTail(ScrollUpShift(Mark(c, "scroll_up"),
                                        Min(c.offset + area_down - 1, Len(c.lines) - 1),
                                        c.offset + area_top - 1),
                          area_top)

\* ConsoleWindow._cursor_newline
CursorNewline(c, real) ==
    IF ~Ok(c) THEN c
    ELSE LET c0 == Mark([c EXCEPT !.cursor.x = 0], IF real THEN "newline" ELSE "soft_wrap")
         IN  IF c0.cursor.y = c0.scroll_area[2]
             THEN ScrollDown(c0, real)
             ELSE LET c1 == [c0 EXCEPT !.cursor.y = Min(c0.cursor.y + 1, c0.height - 1)]
                  IN  IF c1.offset + c1.cursor.y > Len(c1.lines) - 1
                      THEN InsertNewline(c1, real) ELSE c1

\* _update_line, lines 488-490, and _ctl_erase_entire_line, lines 767-769:
\* update the screen directly, only if the window will not be redrawn entirely
UpdateScreen(c, y, x, data) ==
    IF ~c.redraw /\ c.display_offset <= y /\ y < c.display_offset + c.height
    THEN [c EXCEPT !.win = AddFormattedStr(c.win, y - c.display_offset, x, data)]
    ELSE c

\* ConsoleWindow._update_line (data is a FormattedString; a str argument is
\* wrapped by the caller with PlainFS, as line 481 does)
UpdateLine(c, y, x, data) ==
    IF ~Ok(c) THEN c
    ELSE IF ~(0 <= y /\ y < Len(c.lines)) THEN Raise(c, "AssertionError")
    ELSE IF ~(0 <= x /\ x < c.width) THEN Raise(c, "AssertionError")
    ELSE IF ~(0 <= x + FSLen(data) /\ x + FSLen(data) <= c.width)
         THEN Raise(c, "AssertionError")
    ELSE LET old == c.lines[y + 1].content
             new == FSRstrip(FSAdd(FSAdd(FSLjust(FSSliceTo(old, x), x), data),
                                   FSSliceFrom(old, x + FSLen(data))))
         IN  UpdateScreen([c EXCEPT !.lines[y + 1].content = new], y, x, data)

RECURSIVE WriteLineLoop(_, _)
\* _write_line, line 508: 'self.cursor.x += len(line)', then the next round
WriteLineAdvance(c, n, rest) ==
    IF ~Ok(c) THEN c ELSE WriteLineLoop([c EXCEPT !.cursor.x = c.cursor.x + n], rest)

\* _write_line, lines 501-506: one chunk of data written at the cursor
WriteLineChunk(c, data) ==
    LET y == c.offset + c.cursor.y
        x == c.cursor.x
        line == PySliceTo(data, c.width - x)
        rest == PySliceFrom(data, c.width - x)
    IN  WriteLineAdvance(UpdateLine(c, y, x, FormattedString(line, c.attr, c.fg, c.bg)),
                         Len(line), rest)

\* _write_line: the loop 'while data'
WriteLineLoop(c, data) ==
    IF ~Ok(c) \/ data = <<>> THEN c
    ELSE WriteLineChunk(IF c.cursor.x = c.width THEN CursorNewline(c, FALSE) ELSE c, data)

\* ConsoleWindow._write_line
WriteLine(c, data) ==
    IF ~Ok(c) THEN c
    ELSE IF ~(c.offset + c.cursor.y < Len(c.lines)) THEN Raise(c, "AssertionError")
    ELSE WriteLineLoop(c, data)

\* ConsoleWindow._index_real_line: the index of the first line numbered
\* line_num, or -1 when the loop ends without one ('assert False')
IndexRealLine(c, line_num) ==
    LET S == {i \in 1..Len(c.lines) : c.lines[i].num = line_num}
    IN  IF S = {} THEN -1 ELSE (CHOOSE i \in S : \A j \in S : i <= j) - 1

\* _cursor_real_pos: the loop 'while i >= 0 and self.lines[i][1] == real_y'
RECURSIVE RealXLoop(_, _, _, _)
RealXLoop(c, i, real_y, real_x) ==
    IF i >= 0 /\ c.lines[i + 1].num = real_y
    THEN RealXLoop(c, i - 1, real_y, real_x + c.width)
    ELSE real_x

\* ConsoleWindow._cursor_real_pos: [ok, real_y, real_x]; ok is FALSE when the
\* subscript of line 524 raises IndexError
CursorRealPos(c) ==
    LET y == c.offset + c.cursor.y
    IN  IF ~ValidLine(c, y) THEN [ok |-> FALSE, real_y |-> 0, real_x |-> 0]
        ELSE LET real_y == LineAt(c, y).num
             IN  [ok |-> TRUE, real_y |-> real_y,
                  real_x |-> RealXLoop(c, y - 1, real_y, c.cursor.x)]

\* _move_cursor_win: the loop 'while self.offset + y >= len(self.lines)'
RECURSIVE MoveCursorLoop(_, _)
MoveCursorLoop(c, y) ==
    IF ~Ok(c) THEN c
    ELSE IF c.offset + y >= Len(c.lines) THEN MoveCursorLoop(InsertNewline(c, TRUE), y)
    ELSE c

\* _move_cursor_win, line 547: 'self.cursor.y, self.cursor.x = y, x'
SetCursor(c, y, x) == IF Ok(c) THEN [c EXCEPT !.cursor = [y |-> y, x |-> x]] ELSE c

\* a cursor move that lets x reach the width
MoveCursorWin_UpToWidth(c, y0, x0) ==
    IF ~Ok(c) THEN c
    ELSE LET y == Min(Max(0, y0), c.height - 1)
             x == Min(Max(0, x0), c.width)
         IN  SetCursor(MoveCursorLoop(c, y), y, x)

\* ConsoleWindow._move_cursor_win
MoveCursorWin(c, y0, x0) ==
    IF ~Ok(c) THEN c
    ELSE LET y == Min(Max(0, y0), c.height - 1)
             x == Min(Max(0, x0), c.width - 1)
         IN  SetCursor(MoveCursorLoop(c, y), y, x)

(***************************************************************************)
(* Control sequences: the regular-expression table of _control_seq.  Every  *)
(* CSI pattern of the table is ESC [, an optional '?' or '>', a parameter   *)
(* string over digits and ';', and one final character that is neither; so  *)
(* a pattern matches exactly when the maximal parameter string has the      *)
(* pattern's shape and the character after it is the pattern's final.       *)
(***************************************************************************)
Letters ==
    {"a", "b", "c", "d", "e", "f", "g", "h", "i", "j", "k", "l", "m", "n", "o",
     "p", "q", "r", "s", "t", "u", "v", "w", "x", "y", "z",
     "A", "B", "C", "D", "E", "F", "G", "H", "I", "J", "K", "L", "M", "N", "O",
     "P", "Q", "R", "S", "T", "U", "V", "W", "X", "Y", "Z"}

\* data[i] (1-based), or "" past the end
CharAt(data, i) == IF i >= 1 /\ i <= Len(data) THEN data[i] ELSE ""

\* the first index >= i whose character is not in S (Len + 1 when none)
RECURSIVE SkipWhile(_, _, _)
SkipWhile(data, i, S) ==
    IF i <= Len(data) /\ data[i] \in S THEN SkipWhile(data, i + 1, S) ELSE i

\* str.split(';')
RECURSIVE Split(_, _)
Split(s, cur) ==
    IF s = <<>> THEN <<cur>>
    ELSE IF Head(s) = ";" THEN <<cur>> \o Split(Tail(s), <<>>)
    ELSE Split(Tail(s), Append(cur, Head(s)))

\* int(s) for a non-empty string of decimal digits
RECURSIVE ParseInt(_, _)
ParseInt(s, acc) ==
    IF s = <<>> THEN acc ELSE ParseInt(Tail(s), acc * 10 + DigitVal(Head(s)))

\* map(int, s.split(';'))
IntList(s) == LET parts == Split(s, <<>>) IN [i \in 1..Len(parts) |-> ParseInt(parts[i], 0)]

\* \d+(;\d+)*
IsNumList(s) ==
    LET parts == Split(s, <<>>) IN \A i \in 1..Len(parts) : parts[i] # <<>>

\* (\d+)?
IsOptNum(s) == \A i \in 1..Len(s) : s[i] \in Digits

\* (\d+;\d+)?
IsOptPair(s) == s = <<>> \/ (IsNumList(s) /\ Len(Split(s, <<>>)) = 2)

\* (\d+(;\d+)*)?
IsOptNumList(s) == s = <<>> \/ IsNumList(s)

NoMatch == [fun |-> "none", len |-> 1, group1 |-> <<>>, last |-> ""]

\* the patterns that start with ESC [
MatchCSI(data) ==
    LET pfx == IF CharAt(data, 3) \in {"?", ">"} THEN CharAt(data, 3) ELSE ""
        start == IF pfx = "" THEN 3 ELSE 4
        pend == SkipWhile(data, start, Digits \cup {";"})
        p == SubSeq(data, start, pend - 1)
        f == CharAt(data, pend)
        M(fun) == [fun |-> fun, len |-> pend, group1 |-> p, last |-> f]
    IN  IF pfx = "?"
        THEN IF f \in {"h", "l"} /\ p # <<>> /\ IsNumList(p)
             THEN M("_ctl_private_set_mode") ELSE NoMatch
        ELSE IF pfx = ">"
        THEN IF f = "c" /\ p = <<>> THEN M("_ctl_query_term_id") ELSE NoMatch
        ELSE CASE f \in {"H", "f"} /\ IsOptPair(p) -> M("_ctl_cursor_home")
               [] f = "A" /\ IsOptNum(p) -> M("_ctl_cursor_up")
               [] f = "B" /\ IsOptNum(p) -> M("_ctl_cursor_down")
               [] f = "C" /\ IsOptNum(p) -> M("_ctl_cursor_forward")
               [] f = "D" /\ IsOptNum(p) -> M("_ctl_cursor_backward")
               [] f = "d" /\ IsOptNum(p) -> M("_ctl_cursor_vertical_pos")
               [] f = "G" /\ IsOptNum(p) -> M("_ctl_cursor_horizontal_pos")
               [] f = "K" /\ p \in {<<>>, <<"0">>} -> M("_ctl_erase_end_line")
               [] f = "K" /\ p = <<"1">> -> M("_ctl_erase_start_line")
               [] f = "K" /\ p = <<"2">> -> M("_ctl_erase_entire_line")
               [] f = "J" /\ p \in {<<>>, <<"0">>} -> M("_ctl_erase_down")
               [] f = "J" /\ p = <<"1">> -> M("_ctl_erase_up")
               [] f = "J" /\ p = <<"2">> -> M("_ctl_erase_screen")
               [] f = "X" /\ IsOptNum(p) -> M("_ctl_erase_char")
               [] f = "M" /\ p = <<>> -> M("_ctl_erase_entire_line")
               [] f = "L" /\ IsOptNum(p) -> M("_ctl_insert_line")
               [] f = "P" /\ IsOptNum(p) -> M("_ctl_delete_char")
               [] f = "r" /\ IsOptNumList(p) -> M("_ctl_scroll_area")
               [] f = "m" /\ IsOptNumList(p) -> M("_ctl_attr")
               [] f \in {"h", "l"} /\ p # <<>> /\ IsNumList(p) -> M("_ctl_set_mode")
               [] f = "c" /\ p = <<>> -> M("_ctl_query_code")
               [] f = "n" /\ p = <<"5">> -> M("_ctl_query_status")
               [] f = "n" /\ p = <<"6">> -> M("_ctl_query_cursor_pos")
               [] OTHER -> NoMatch

\* ESC ] \d+ (;[^\a]+)* \a
MatchOSC(data) ==
    LET dend == SkipWhile(data, 3, Digits)
        bel == SkipWhile(data, dend, {ch \in {data[i] : i \in 1..Len(data)} : ch # BEL})
    IN  IF dend = 3 THEN NoMatch
        ELSE IF CharAt(data, dend) = BEL
        THEN [fun |-> "ignore", len |-> dend, group1 |-> <<>>, last |-> BEL]
        ELSE IF CharAt(data, dend) = ";" /\ bel >= dend + 2 /\ CharAt(data, bel) = BEL
        THEN [fun |-> "ignore", len |-> bel, group1 |-> <<>>, last |-> BEL]
        ELSE NoMatch

\* the table of _control_seq: which handler runs and len(match.group(0));
\* fun = "none" (len 1) when no pattern matches
MatchControlSeq(data) ==
    LET c2 == CharAt(data, 2)
        M(fun, n) == [fun |-> fun, len |-> n, group1 |-> <<>>, last |-> c2]
    IN  CASE c2 = "[" -> MatchCSI(data)
          [] c2 = "D" -> M("_ctl_scroll_down", 2)
          [] c2 = "M" -> M("_ctl_scroll_up", 2)
          [] c2 = "=" -> M("_ctl_application_keypad", 2)
          [] c2 = ">" -> M("_ctl_normal_keypad", 2)
          [] c2 \in {")", "(", "*", "+"} ->
                IF CharAt(data, 3) \in Letters THEN M("ignore", 3) ELSE NoMatch
          [] c2 = "]" -> MatchOSC(data)
          [] OTHER -> NoMatch

(***************************************************************************)
(* The handlers of the control sequences.  m is the match: m.group1 is      *)
(* match.group(1) (empty for None), m.last the last character matched.      *)
(***************************************************************************)
\* 'num = 1; if match.group(1): num = int(match.group(1))'
OptNum(m) == IF m.group1 # <<>> THEN ParseInt(m.group1, 0) ELSE 1

\* ConsoleWindow._ctl_cursor_home
CtlCursorHome(c, m) ==
    LET yx == IF m.group1 # <<>> THEN IntList(m.group1) ELSE <<1, 1>>
    IN  MoveCursorWin(c, yx[1] - 1, yx[2] - 1)

\* ConsoleWindow._ctl_cursor_up
CtlCursorUp(c, m) == MoveCursorWin(c, Max(0, c.cursor.y - OptNum(m)), c.cursor.x)

\* ConsoleWindow._ctl_cursor_down
CtlCursorDown(c, m) ==
    MoveCursorWin(c, Min(c.height - 1, c.cursor.y + OptNum(m)), c.cursor.x)

\* ConsoleWindow._ctl_cursor_forward
CtlCursorForward(c, m) ==
    MoveCursorWin(c, c.cursor.y, Min(c.width - 1, c.cursor.x + OptNum(m)))

\* ConsoleWindow._ctl_cursor_backward
CtlCursorBackward(c, m) == MoveCursorWin(c, c.cursor.y, Max(0, c.cursor.x - OptNum(m)))

\* ConsoleWindow._ctl_cursor_vertical_pos
CtlCursorVerticalPos(c, m) == MoveCursorWin(c, OptNum(m) - 1, c.cursor.x)

\* ConsoleWindow._ctl_cursor_horizontal_pos
CtlCursorHorizontalPos(c, m) == MoveCursorWin(c, c.cursor.y, OptNum(m) - 1)

\* 'y, x = self.offset + self.cursor.y, min(self.width - 1, self.cursor.x)'
EraseY(c) == c.offset + c.cursor.y
EraseX(c) == Min(c.width - 1, c.cursor.x)

\* ConsoleWindow._ctl_erase_end_line
CtlEraseEndLine(c, m) ==
    UpdateLine(c, EraseY(c), EraseX(c), PlainFS(Repeat(SP, c.width - EraseX(c))))

\* ConsoleWindow._ctl_erase_start_line
CtlEraseStartLine(c, m) ==
    UpdateLine(c, EraseY(c), 0, PlainFS(Repeat(SP, EraseX(c) + 1)))

\* ConsoleWindow._ctl_erase_entire_line
CtlEraseEntireLine(c, m) ==
    LET y == EraseY(c)
    IN  IF ~ValidLine(c, y) THEN Raise(c, "IndexError")
        ELSE UpdateScreen(SetLine(c, y, Line(EmptyFS, LineAt(c, y).num)), y, 0,
                          PlainFS(Repeat(SP, c.width)))

\* ConsoleWindow._ctl_erase_down
CtlEraseDown(c, m) ==
    IF ~Ok(c) THEN c
    ELSE LET y == EraseY(c)
             x == EraseX(c)
         IN  IF ~ValidLine(c, y) THEN Raise(c, "IndexError")
             ELSE LET c1 == SetLine(c, y, Line(FSSliceTo(LineAt(c, y).content, x),
                                               LineAt(c, y).num))
                  IN  Mark([c1 EXCEPT !.lines = PySliceTo(c1.lines, y + 1), !.redraw = TRUE],
                           "erase_down")

\* _ctl_erase_up: for i in range(i, y): self.lines[i][0] = FormattedString()
RECURSIVE EraseUpLoop(_, _, _)
EraseUpLoop(c, i, y) ==
    IF i >= y \/ ~Ok(c) THEN c
    ELSE IF ~ValidLine(c, i) THEN Raise(c, "IndexError")
    ELSE EraseUpLoop(SetLine(c, i, Line(EmptyFS, LineAt(c, i).num)), i + 1, y)

\* ConsoleWindow._ctl_erase_up
CtlEraseUp(c, m) ==
    IF ~Ok(c) THEN c
    ELSE LET y == EraseY(c)
             x == EraseX(c)
         IN  IF ~ValidLine(c, y) THEN Raise(c, "IndexError")
             ELSE LET new == FSAdd(PlainFS(Repeat(SP, x + 1)),
                                   FSSliceFrom(LineAt(c, y).content, x + 1))
                  IN  SetRedraw(EraseUpLoop(SetLine(c, y, Line(new, LineAt(c, y).num)),
                                            c.offset, y))

\* ConsoleWindow._ctl_erase_screen
CtlEraseScreen(c, m) == CtlEraseDown(CtlEraseUp(c, m), m)

\* ConsoleWindow._ctl_erase_char
CtlEraseChar(c, m) ==
    IF c.cursor.x = c.width THEN c
    ELSE UpdateLine(c, c.offset + c.cursor.y, c.cursor.x, PlainFS(Repeat(SP, OptNum(m))))

\* _ctl_insert_line: 'for _ in range(num): self._scroll_up()'
RECURSIVE InsertLineLoop(_, _)
InsertLineLoop(c, n) == IF n <= 0 \/ ~Ok(c) THEN c ELSE InsertLineLoop(ScrollUp(c), n - 1)

\* _ctl_insert_line, line 814: 'self.scroll_area = saved_scroll_area'
RestoreScrollArea(c, saved_scroll_area) ==
    IF Ok(c) THEN [c EXCEPT !.scroll_area = saved_scroll_area] ELSE c

\* ConsoleWindow._ctl_insert_line
CtlInsertLine(c, m) ==
    IF c.cursor.y > c.scroll_area[2] THEN c
    ELSE RestoreScrollArea(
             InsertLineLoop([c EXCEPT !.scroll_area = <<c.cursor.y, c.scroll_area[2]>>],
                            OptNum(m)),
             c.scroll_area)

\* ConsoleWindow._ctl_delete_char
CtlDeleteChar(c, m) ==
    LET y == c.offset + c.cursor.y
        x == c.cursor.x
    IN  IF x = c.width THEN c
        ELSE IF ~ValidLine(c, y) THEN Raise(c, "IndexError")
        ELSE UpdateLine(c, y, x,
                 FSLjust(FSSliceFrom(LineAt(c, y).content, x + OptNum(m)), c.width - x))

\* _ctl_scroll_area without the clamping of lines 833-834
CtlScrollArea_NoClamp(c, m) ==
    LET td == IF m.group1 # <<>> THEN IntList(m.group1) ELSE <<1, c.height>>
    IN  IF Len(td) # 2 THEN Raise(c, "ValueError")
        ELSE MoveCursorWin([c EXCEPT !.scroll_area = <<td[1] - 1, td[2] - 1>>], 0, 0)

\* ConsoleWindow._ctl_scroll_area
CtlScrollArea(c, m) ==
    LET td == IF m.group1 # <<>> THEN IntList(m.group1) ELSE <<1, c.height>>
    IN  IF Len(td) # 2 THEN Raise(c, "ValueError")
        ELSE LET down == Max(Min(td[2], c.height), 1)
                 top == Max(Min(td[1], down), 1)
             IN  MoveCursorWin([c EXCEPT !.scroll_area = <<top - 1, down - 1>>], 0, 0)

\* ConsoleWindow._ctl_scroll_down
CtlScrollDown(c, m) ==
    IF c.cursor.y # c.scroll_area[2]
    THEN MoveCursorWin(c, c.cursor.y + 1, c.cursor.x)
    ELSE ScrollDown(c, TRUE)

\* ConsoleWindow._ctl_scroll_up
CtlScrollUp(c, m) ==
    IF c.cursor.y # c.scroll_area[1]
    THEN MoveCursorWin(c, c.cursor.y - 1, c.cursor.x)
    ELSE ScrollUp(c)

\* _ctl_set_mode, the loop over the numbers: 4 with 'h' fails the assertion
RECURSIVE SetModeLoop(_, _, _)
SetModeLoop(c, nums, val) ==
    IF nums = <<>> \/ ~Ok(c) THEN c
    ELSE IF Head(nums) = 4
    THEN IF val THEN Raise(c, "AssertionError") ELSE SetModeLoop(c, Tail(nums), val)
    ELSE SetModeLoop(Mark(c, "log_error"), Tail(nums), val)

\* ConsoleWindow._ctl_set_mode
CtlSetMode(c, m) == SetModeLoop(c, IntList(m.group1), m.last = "h")

\* the private modes that _ctl_private_set_mode ignores silently
IgnoredPrivateModes == {1, 12, 25, 1049, 2004, 1000, 1001, 1002, 1005, 1006}

\* ConsoleWindow._ctl_private_set_mode (every number is ignored or logged)
CtlPrivateSetMode(c, m) ==
    IF \A i \in DOMAIN IntList(m.group1) : IntList(m.group1)[i] \in IgnoredPrivateModes
    THEN c ELSE Mark(c, "log_error")

\* the palette of _approximate_color: curses colour number |-> (r, g, b)
Palette ==
    << <<0, 0, 0>>, <<174, 0, 0>>, <<0, 174, 0>>, <<174, 174, 0>>,
       <<0, 0, 174>>, <<174, 0, 174>>, <<0, 174, 174>>, <<174, 174, 174>> >>

\* the square of the distance that _approximate_color minimises
Dist2(i, r, g, b) ==
    (r - Palette[i][1]) * (r - Palette[i][1]) + (g - Palette[i][2]) * (g - Palette[i][2])
      + (b - Palette[i][3]) * (b - Palette[i][3])

\* ConsoleWindow._approximate_color: min() keeps the first of equal minima
ApproximateColor(r, g, b) ==
    (CHOOSE i \in 1..8 :
        /\ \A j \in 1..8 : Dist2(i, r, g, b) <= Dist2(j, r, g, b)
        /\ \A j \in 1..(i - 1) : Dist2(j, r, g, b) > Dist2(i, r, g, b)) - 1

\* the dictionary of lines 629-636
AttrSetBits(attr) ==
    CASE attr = 1 -> {"A_BOLD"} [] attr = 2 -> {"A_DIM"} [] attr = 4 -> {"A_UNDERLINE"}
      [] attr = 5 -> {"A_BLINK"} [] attr = 7 -> {"A_REVERSE"} [] attr = 8 -> {"A_INVIS"}
      [] OTHER -> {}

\* the dictionary of lines 638-644, looked up with attr itself
AttrClearBits(attr) ==
    CASE attr = 2 -> {"A_BOLD", "A_DIM"} [] attr = 4 -> {"A_UNDERLINE"}
      [] attr = 5 -> {"A_BLINK"} [] attr = 7 -> {"A_REVERSE"} [] attr = 8 -> {"A_INVIS"}
      [] OTHER -> {}

\* _ctl_attr: the loop 'while True: attr = next(it)'; StopIteration ends it
RECURSIVE AttrLoop(_, _)
AttrLoop(c, it) ==
    IF it = <<>> THEN c
    ELSE LET attr == Head(it)
             rest == Tail(it)
             SetColor(r, g, b, after) ==
                 IF attr = 38
                 THEN AttrLoop([c EXCEPT !.fg = ApproximateColor(r, g, b)], after)
                 ELSE AttrLoop([c EXCEPT !.bg = ApproximateColor(r, g, b)], after)
         IN  CASE attr = 0 -> AttrLoop([c EXCEPT !.attr = {}, !.fg = -1, !.bg = -1], rest)
               [] attr > 0 /\ attr < 10 ->
                    AttrLoop([c EXCEPT !.attr = c.attr \cup AttrSetBits(attr)], rest)
               [] 20 <= attr /\ attr < 29 ->
                    AttrLoop([c EXCEPT !.attr = c.attr \ AttrClearBits(attr)], rest)
               [] 30 <= attr /\ attr <= 37 -> AttrLoop([c EXCEPT !.fg = attr - 30], rest)
               [] attr = 39 -> AttrLoop([c EXCEPT !.fg = -1], rest)
               [] 40 <= attr /\ attr <= 47 -> AttrLoop([c EXCEPT !.bg = attr - 40], rest)
               [] attr = 49 -> AttrLoop([c EXCEPT !.bg = -1], rest)
               [] attr \in {38, 48} ->
                    IF rest = <<>> THEN c
                    ELSE IF rest[1] = 2
                    THEN IF Len(rest) < 4 THEN c
                         ELSE SetColor(rest[2], rest[3], rest[4], SubSeq(rest, 5, Len(rest)))
                    ELSE IF rest[1] = 5
                    THEN IF Len(rest) < 2 THEN c
                         ELSE LET rgb == rest[2]
                                  after == SubSeq(rest, 3, Len(rest))
                              IN  IF rgb < 16 THEN AttrLoop(c, after)
                                  ELSE IF rgb < 232
                                  THEN SetColor((((rgb - 16) \div 36) * 256) \div 6,
                                                ((((rgb - 16) \div 6) % 6) * 256) \div 6,
                                                (((rgb - 16) % 6) * 256) \div 6, after)
                                  ELSE SetColor(((rgb - 232) * 256) \div 23,
                                                ((rgb - 232) * 256) \div 23,
                                                ((rgb - 232) * 256) \div 23, after)
                    ELSE AttrLoop(Mark(c, "log_error"), Tail(rest))
               [] OTHER -> AttrLoop(c, rest)

\* ConsoleWindow._ctl_attr
CtlAttr(c, m) == AttrLoop(c, IF m.group1 # <<>> THEN IntList(m.group1) ELSE <<0>>)

\* ConsoleWindow._ctl_query_code
CtlQueryCode(c, m) ==
    IF ~c.reply_query THEN c
    ELSE [c EXCEPT !.replied = Append(@, <<ESC, "[", "?", "1", ";", "2", "c">>)]

\* ConsoleWindow._ctl_query_status
CtlQueryStatus(c, m) ==
    IF ~c.reply_query THEN c
    ELSE [c EXCEPT !.replied = Append(@, <<ESC, "[", "0", "n">>)]

\* _ctl_query_cursor_pos with the cursor reported as it is stored, zero-based
CtlQueryCursorPos_ZeroBased(c, m) ==
    IF ~c.reply_query THEN c
    ELSE [c EXCEPT !.replied = Append(@, <<ESC, "[">> \o DecStr(c.cursor.y) \o <<";">>
                                           \o DecStr(c.cursor.x) \o <<"R">>)]

\* ConsoleWindow._ctl_query_cursor_pos: '\x1b[%d;%dR' % (cursor.y + 1, cursor.x + 1)
CtlQueryCursorPos(c, m) ==
    IF ~c.reply_query THEN c
    ELSE [c EXCEPT !.replied = Append(@, <<ESC, "[">> \o DecStr(c.cursor.y + 1) \o <<";">>
                                           \o DecStr(c.cursor.x + 1) \o <<"R">>)]

\* ConsoleWindow._ctl_query_term_id
CtlQueryTermId(c, m) ==
    IF ~c.reply_query THEN c
    ELSE [c EXCEPT !.replied = Append(@, <<ESC, "[", ">", "8", "4", ";", "0", ";", "0", "c">>)]

\* _control_seq, 'fun(match)': the handler the table names
CallHandler(c, m) ==
    CASE m.fun = "_ctl_cursor_home" -> CtlCursorHome(c, m)
      [] m.fun = "_ctl_cursor_up" -> CtlCursorUp(c, m)
      [] m.fun = "_ctl_cursor_down" -> CtlCursorDown(c, m)
      [] m.fun = "_ctl_cursor_forward" -> CtlCursorForward(c, m)
      [] m.fun = "_ctl_cursor_backward" -> CtlCursorBackward(c, m)
      [] m.fun = "_ctl_cursor_vertical_pos" -> CtlCursorVerticalPos(c, m)
      [] m.fun = "_ctl_cursor_horizontal_pos" -> CtlCursorHorizontalPos(c, m)
      [] m.fun = "_ctl_erase_end_line" -> CtlEraseEndLine(c, m)
      [] m.fun = "_ctl_erase_start_line" -> CtlEraseStartLine(c, m)
      [] m.fun = "_ctl_erase_entire_line" -> CtlEraseEntireLine(c, m)
      [] m.fun = "_ctl_erase_down" -> CtlEraseDown(c, m)
      [] m.fun = "_ctl_erase_up" -> CtlEraseUp(c, m)
      [] m.fun = "_ctl_erase_screen" -> CtlEraseScreen(c, m)
      [] m.fun = "_ctl_erase_char" -> CtlEraseChar(c, m)
      [] m.fun = "_ctl_insert_line" -> CtlInsertLine(c, m)
      [] m.fun = "_ctl_delete_char" -> CtlDeleteChar(c, m)
      [] m.fun = "_ctl_scroll_area" -> CtlScrollArea(c, m)
      [] m.fun = "_ctl_scroll_down" -> CtlScrollDown(c, m)
      [] m.fun = "_ctl_scroll_up" -> CtlScrollUp(c, m)
      [] m.fun = "_ctl_attr" -> CtlAttr(c, m)
      [] m.fun = "_ctl_set_mode" -> CtlSetMode(c, m)
      [] m.fun = "_ctl_private_set_mode" -> CtlPrivateSetMode(c, m)
      [] m.fun = "_ctl_query_code" -> CtlQueryCode(c, m)
      [] m.fun = "_ctl_query_status" -> CtlQueryStatus(c, m)
      [] m.fun = "_ctl_query_cursor_pos" -> CtlQueryCursorPos(c, m)
      [] m.fun = "_ctl_query_term_id" -> CtlQueryTermId(c, m)
      [] OTHER -> c

\* _control_seq, lines 588-594: run the handler of the match m and return
\* len(match.group(0)), or log the error and return 1
CallMatched(c, m) ==
    [con |-> IF m.fun = "none" THEN Mark(c, "log_error") ELSE CallHandler(c, m),
     remove |-> m.len]

\* ConsoleWindow._control_seq: the console after the handler and the number
\* of characters consumed
ControlSeq(c, data) == CallMatched(c, MatchControlSeq(data))

\* ConsoleWindow._expand_tab: [ok, current]
ExpandTab(c, current) ==
    LET p == CursorRealPos(c)
        x == p.real_x + Len(current)
    IN  [ok |-> p.ok, current |-> current \o Repeat(SP, 8 - (x % 8))]

RECURSIVE WriteLoop(_, _, _)
\* write, line 419: 'data = data[remove:]' after _control_seq returned r
WriteAfterSeq(r, data) == WriteLoop(r.con, PySliceFrom(data, r.remove), <<>>)

\* write, lines 392-395: ESC, once the staged text is written
WriteEscape(c, data) == IF Ok(c) THEN WriteAfterSeq(ControlSeq(c, data), data) ELSE c

\* write, lines 398-401: backspace, once the staged text is written
WriteBackspace(c, data) ==
    IF Ok(c) THEN WriteLoop([c EXCEPT !.cursor.x = Max(0, c.cursor.x - 1)], Tail(data), <<>>)
    ELSE c

\* write, lines 408-411: carriage return, once the staged text is written
WriteReturn(c, data) ==
    IF Ok(c) THEN WriteLoop([c EXCEPT !.cursor.x = 0], Tail(data), <<>>) ELSE c

\* write, lines 402-403: tab, t being the result of _expand_tab
WriteTab(c, data, t) ==
    IF t.ok THEN WriteLoop(c, Tail(data), t.current) ELSE Raise(c, "IndexError")

\* write: the loop 'while data' with the staging string current
WriteLoop(c, data, current) ==
    IF ~Ok(c) THEN c
    ELSE IF data = <<>> THEN WriteLine(c, current)
    ELSE LET ch == Head(data)
         IN  CASE ch = ESC -> WriteEscape(WriteLine(c, current), data)
               [] ch = BEL -> WriteLoop(c, Tail(data), current)
               [] ch = BS -> WriteBackspace(WriteLine(c, current), data)
               [] ch = HT -> WriteTab(c, data, ExpandTab(c, current))
               [] ch = LF ->
                    WriteLoop(CursorNewline(WriteLine(c, current), TRUE), Tail(data), <<>>)
               [] ch = CR -> WriteReturn(WriteLine(c, current), data)
               [] OTHER -> WriteLoop(c, Tail(data), Append(current, ch))

\* ConsoleWindow.write
ConsoleWrite(c, data) ==
    IF ~(c.offset + c.cursor.y < Len(c.lines)) THEN Raise(c, "AssertionError")
    ELSE WriteLoop(c, data, <<>>)

\* _rebuild_lines: 'while current_line: lines.append(...)' (lines 338-340, 347-349)
RECURSIVE SplitLine(_, _, _, _)
SplitLine(lines, current_line, current_num, new_width) ==
    IF ~FSBool(current_line) THEN lines
    ELSE SplitLine(Append(lines, Line(FSSliceTo(current_line, new_width), current_num)),
                   FSSliceFrom(current_line, new_width), current_num, new_width)

\* _rebuild_lines: the if/else that flushes the current real line
FlushLine(lines, current_line, current_num, new_width) ==
    IF ~FSBool(current_line) THEN Append(lines, Line(EmptyFS, current_num))
    ELSE SplitLine(lines, current_line, current_num, new_width)

\* _rebuild_lines: the loop over self.lines[1:]
RECURSIVE RebuildLoop(_, _, _, _, _, _)
RebuildLoop(rest, lines, current_line, current_num, prev_width, new_width) ==
    IF rest = <<>> THEN FlushLine(lines, current_line, current_num, new_width)
    ELSE LET line == rest[1].content
             num == rest[1].num
         IN  IF current_num = num
             THEN LET padding == (prev_width - (FSLen(current_line) % prev_width)) % prev_width
                      padded == FSAdd(current_line, PlainFS(Repeat(SP, padding)))
                  IN  RebuildLoop(Tail(rest), lines, FSAdd(padded, line), current_num,
                                  prev_width, new_width)
             ELSE RebuildLoop(Tail(rest),
                              FlushLine(lines, current_line, current_num, new_width),
                              line, num, prev_width, new_width)

\* ConsoleWindow._rebuild_lines
RebuildLines(c, prev_width, new_width) ==
    Mark([c EXCEPT !.lines = RebuildLoop(Tail(c.lines), <<>>, c.lines[1].content,
                                         c.lines[1].num, prev_width, new_width)], "rebuild")

\* resize: 'while len(self.lines) > self.offset + height: self._remove_lastline()'
RECURSIVE ResizeRemoveLoop(_)
ResizeRemoveLoop(c) ==
    IF ~Ok(c) THEN c
    ELSE IF Len(c.lines) > c.offset + c.height THEN ResizeRemoveLoop(RemoveLastline(c))
    ELSE c

\* resize: 'while self.offset + self.cursor.y >= len(self.lines): self._insert_newline(real=False)'
RECURSIVE ResizeInsertLoop(_)
ResizeInsertLoop(c) ==
    IF ~Ok(c) THEN c
    ELSE IF c.offset + c.cursor.y >= Len(c.lines) THEN ResizeInsertLoop(InsertNewline(c, FALSE))
    ELSE c

\* resize, lines 291-299
ResizeHeight(c, prev_height, height) ==
    IF prev_height # height
    THEN LET diff0 == prev_height - height
             diff1 == IF prev_height > height /\ c.cursor.y < height THEN 0 ELSE diff0
             diff == Max(diff1, -c.offset)
         IN  [c EXCEPT !.offset = Max(Min(c.offset + diff, Len(c.lines) - 1), 0),
                       !.display_offset = Max(Min(c.display_offset + diff, Len(c.lines) - 1), 0),
                       !.cursor.y = Max(Min(c.cursor.y - diff, height - 1), 0)]
    ELSE c

\* resize, lines 301-312
ResizeWidth(c, prev_width, width, real_y) ==
    IF prev_width # width
    THEN LET prev_y == IndexRealLine(c, real_y)
             c1 == RebuildLines(c, prev_width, width)
             new_y == IndexRealLine(c1, real_y)
         IN  IF prev_y = -1 \/ c.lines = <<>> \/ new_y = -1 THEN Raise(c, "AssertionError")
             ELSE [c1 EXCEPT !.offset = Max(0, c1.offset + new_y - prev_y),
                             !.display_offset = Max(0, c1.display_offset + new_y - prev_y)]
    ELSE c

\* ConsoleWindow.resize
ConsoleResize(c, height, width) ==
    LET p == CursorRealPos(c)
        c1 == [c EXCEPT !.height = height, !.width = width,
                        !.win = WinResize(c.win, height, width),
                        !.scroll_area = <<0, height - 1>>]
        c2 == ResizeHeight(c1, c.height, height)
        c3 == ResizeWidth(c2, c.width, width, p.real_y)
        c4 == ResizeInsertLoop(ResizeRemoveLoop(c3))
    IN  IF ~p.ok THEN Raise(c, "IndexError")
        ELSE IF Ok(c4) THEN [c4 EXCEPT !.redraw = TRUE] ELSE c4

\* a scroll that leaves auto_scroll as it was
ConsoleScroll_KeepsAuto(c, delta) ==
    IF ~(c.display_offset + delta >= 0) THEN c
    ELSE [c EXCEPT !.display_offset = c.display_offset + delta, !.redraw = TRUE]

\* ConsoleWindow.scroll
ConsoleScroll(c, delta) ==
    IF ~(c.display_offset + delta >= 0) THEN c
    ELSE [c EXCEPT !.display_offset = c.display_offset + delta,
                   !.auto_scroll = FALSE, !.redraw = TRUE]

\* ConsoleWindow.deactivate_scroll
ConsoleDeactivateScroll(c) ==
    [c EXCEPT !.display_offset = c.offset, !.auto_scroll = TRUE, !.redraw = TRUE]

\* refresh, lines 357-360: draw the rows display_offset .. display_offset + height - 1
RECURSIVE RedrawLoop(_, _)
RedrawLoop(c, i) ==
    IF i >= c.display_offset + c.height \/ ~Ok(c) THEN c
    ELSE IF i < Len(c.lines) /\ ~PyValid(i, Len(c.lines)) THEN Raise(c, "IndexError")
    ELSE RedrawLoop(
            [c EXCEPT !.win = AddFormattedStr(
                                 c.win, i - c.display_offset, 0,
                                 FSLjust(IF i < Len(c.lines) THEN LineAt(c, i).content
                                         ELSE EmptyFS, c.width))],
            i + 1)

\* the end of the redraw, line 362
ClearRedraw(c) == IF Ok(c) THEN [c EXCEPT !.redraw = FALSE] ELSE c

\* ConsoleWindow.refresh (the position and visibility of the host cursor are
\* not part of the model)
ConsoleRefresh(c) ==
    IF ~Ok(c) THEN c
    ELSE IF c.redraw THEN ClearRedraw(RedrawLoop(c, c.display_offset))
    ELSE c

(***************************************************************************)
(* The state machine: one ConsoleWindow driven through its public           *)
(* operations, as ScreenManager drives it (write for the child's output,    *)
(* resize on SIGWINCH) plus the scrollback calls scroll/deactivate_scroll.  *)
(***************************************************************************)
VARIABLES
    size,            \* Window.size = (height, width)
    lines,           \* the buffer: list of [content, num]
    offset,          \* first line of the real window
    cursor,          \* Cursor(y, x), relative to the real window
    scroll_area,     \* (top, bottom)
    attr, fg, bg,    \* current drawing style
    display_offset,  \* first line of the display window
    auto_scroll,
    redraw,
    err,             \* "ok", or the exception that ended the last operation
    nops,            \* number of operations applied so far (bounded by MaxOps)
    last,            \* the last operation: its name, its argument, the code paths it took
    trip,            \* width round trip in progress: phase, and the buffer and width it started from
    ret,             \* value returned by the last _control_seq call (NoRet when it raised)
    screen,          \* the cells of the console's curses window
    mgr,             \* the ScreenManager in main_loop, the host terminal and the child
    hist,            \* the lines or strings written so far, oldest first
    fs               \* a FormattedString object, as operated on outside the console

vars == <<size, lines, offset, cursor, scroll_area, attr, fg, bg, display_offset,
          auto_scroll, redraw, err, nops, last, trip, ret, screen, mgr, hist,
          fs>>

\* the fields of the console
console == <<size, lines, offset, cursor, scroll_area, attr, fg, bg, display_offset,
             auto_scroll, redraw>>

\* what the operations of the console alone leave untouched
ext == <<ret, mgr, hist, fs>>

\* ScreenManager.__init__, before main_loop (the host terminal has one row
\* more than the console, for the banner: its size is entered by LoopStart)
NewManager ==
    [ pc |-> "main_loop",        \* the statement of main_loop to execute next
      resize_event |-> FALSE,
      host |-> <<0, 0>>,          \* the size of the host terminal
      hw |-> <<0, 0>>,            \* the size last read with get_hw
      pty |-> <<0, 0>>,           \* the size last pushed to the child's pty
      winch |-> 0,                \* SIGWINCH sent to the child
      child |-> "none",           \* "none", "running", "exited", "killed"
      child_in |-> <<>>,          \* the bytes written to the child's stdin
      unserved |-> FALSE,         \* a signal arrived after the last get_hw
      nsig |-> 0,                 \* signals delivered so far
      iters |-> 0 ]               \* iterations begun since the child exited

NoRet == 0

\* the ConsoleWindow object in the current state
Self ==
    [ height |-> size[1], width |-> size[2], history_size |-> HistorySize,
      lines |-> lines, offset |-> offset, cursor |-> cursor, scroll_area |-> scroll_area,
      attr |-> attr, fg |-> fg, bg |-> bg, display_offset |-> display_offset,
      auto_scroll |-> auto_scroll, redraw |-> redraw, win |-> screen,
      reply_query |-> mgr.pc # "main_loop",   \* set by line 1107 of main_loop
      replied |-> <<>>,
      err |-> err, ev |-> {} ]

\* the next state holds the object c, left there by operation op(arg)
Becomes(c, op, arg) ==
    /\ last' = [op |-> op, arg |-> arg, ev |-> c.ev]
    /\ size' = <<c.height, c.width>>
    /\ lines' = c.lines
    /\ offset' = c.offset
    /\ cursor' = c.cursor
    /\ scroll_area' = c.scroll_area
    /\ attr' = c.attr
    /\ fg' = c.fg
    /\ bg' = c.bg
    /\ display_offset' = c.display_offset
    /\ auto_scroll' = c.auto_scroll
    /\ redraw' = c.redraw
    /\ screen' = c.win
    /\ err' = c.err

NoTrip == [phase |-> 0, lines |-> <<>>, width |-> 0, trimmed |-> FALSE]

\* heights that do not exceed the history size, and all heights
StdHeights == {h \in Heights : h <= HistorySize}

InitAll(HS, WS, FSS) ==
    /\ \E h \in HS, w \in WS :
          /\ size = <<h, w>>
          /\ lines = NewConsole(h, w, HistorySize).lines
          /\ offset = 0
          /\ cursor = [y |-> 0, x |-> 0]
          /\ scroll_area = <<0, h - 1>>
          /\ screen = BlankWin(h, w)
    /\ mgr = NewManager
    /\ hist = <<>>
    /\ fs \in FSS
    /\ attr = {}
    /\ fg = -1
    /\ bg = -1
    /\ display_offset = 0
    /\ auto_scroll = TRUE
    /\ redraw = TRUE
    /\ err = "ok"
    /\ nops = 0
    /\ last = [op |-> "init", arg |-> <<>>, ev |-> {}]
    /\ trip = NoTrip
    /\ ret = NoRet

InitWith(HS) == InitAll(HS, Widths, {EmptyFS})

Init == InitWith(Heights)
InitStd == InitWith(StdHeights)

\* the strings written in the model
S_a == <<"a">>
S_aaa == <<"a", "a", "a">>
S_line == <<"a", "a", "a", LF>>
S_lf == <<LF>>
S_lf3 == <<LF, LF, LF>>
S_home == <<ESC, "[", "H">>
S_far == <<ESC, "[", "9", ";", "9", "H">>
S_up == <<ESC, "[", "A">>
S_eraseDown == <<ESC, "[", "J">>
S_eraseScreen == <<ESC, "[", "2", "J">>
S_eraseLine == <<ESC, "[", "K">>
S_insert == <<ESC, "[", "L">>
S_insert5 == <<ESC, "[", "5", "L">>
S_region12 == <<ESC, "[", "1", ";", "2", "r">>
S_region29 == <<ESC, "[", "2", ";", "9", "r">>
S_region00 == <<ESC, "[", "0", ";", "0", "r">>
S_region31 == <<ESC, "[", "3", ";", "1", "r">>
S_index == <<ESC, "D">>
S_reverseIndex == <<ESC, "M">>

TextData == {S_a, S_aaa, S_line, S_lf, S_lf3}

WriteData ==
    TextData \cup
    {S_home, S_far, S_up, S_eraseDown, S_eraseScreen, S_eraseLine, S_insert, S_insert5,
     S_region12, S_region29, S_region00, S_region31, S_index, S_reverseIndex}

ScrollDeltas == {-1, 1, 2}

\* ScreenManager.main_loop: self.console.write(...)
Write(data) ==
    /\ err = "ok"
    /\ nops < MaxOps
    /\ trip.phase = 0
    /\ Becomes(ConsoleWrite(Self, data), "write", data)
    /\ nops' = nops + 1
    /\ UNCHANGED <<trip, ext>>

\* ScreenManager.resize: self.console.resize(height - 1, width, 0, 0)
Resize(h, w) ==
    /\ err = "ok"
    /\ nops < MaxOps
    /\ trip.phase = 0
    /\ Becomes(ConsoleResize(Self, h, w), "resize", <<h, w>>)
    /\ nops' = nops + 1
    /\ UNCHANGED <<trip, ext>>

\* ConsoleWindow.scroll
Scroll(delta) ==
    /\ err = "ok"
    /\ nops < MaxOps
    /\ trip.phase = 0
    /\ Becomes(ConsoleScroll(Self, delta), "scroll", <<delta>>)
    /\ nops' = nops + 1
    /\ UNCHANGED <<trip, ext>>

\* ConsoleWindow.deactivate_scroll
DeactivateScroll ==
    /\ err = "ok"
    /\ nops < MaxOps
    /\ trip.phase = 0
    /\ Becomes(ConsoleDeactivateScroll(Self), "deactivate_scroll", <<>>)
    /\ nops' = nops + 1
    /\ UNCHANGED <<trip, ext>>

Next ==
    \/ \E data \in WriteData : Write(data)
    \/ \E h \in Heights, w \in Widths : Resize(h, w)
    \/ \E delta \in ScrollDeltas : Scroll(delta)
    \/ DeactivateScroll

Spec == Init /\ [][Next]_vars

\* the same machine on a terminal no taller than the history size
NextStd ==
    \/ \E data \in WriteData : Write(data)
    \/ \E h \in StdHeights, w \in Widths : Resize(h, w)
    \/ \E delta \in ScrollDeltas : Scroll(delta)
    \/ DeactivateScroll

SpecStd == InitStd /\ [][NextStd]_vars

\* a width round trip, first leg: resize(height, w) with another width w
ResizeThere(w) ==
    /\ err = "ok"
    /\ nops < MaxOps
    /\ trip.phase = 0
    /\ w # size[2]
    /\ Becomes(ConsoleResize(Self, size[1], w), "resize", <<size[1], w>>)
    /\ nops' = nops + 1
    /\ trip' = [phase |-> 1, lines |-> lines, width |-> size[2],
                trimmed |-> "trim" \in last'.ev]
    /\ UNCHANGED ext

\* a width round trip, second leg: resize back to the width it started from
ResizeBack ==
    /\ err = "ok"
    /\ trip.phase = 1
    /\ Becomes(ConsoleResize(Self, size[1], trip.width), "resize", <<size[1], trip.width>>)
    /\ nops' = nops + 1
    /\ trip' = [trip EXCEPT !.phase = 2, !.trimmed = @ \/ "trim" \in last'.ev]
    /\ UNCHANGED ext

\* a fresh console fed printable characters and LF only, then resized to
\* another width and back
NextReflow ==
    \/ \E data \in TextData : Write(data)
    \/ \E w \in Widths : ResizeThere(w)
    \/ ResizeBack

SpecReflow == InitStd /\ [][NextReflow]_vars

(***************************************************************************)
(* The control-sequence step on its own: write() hands _control_seq the     *)
(* rest of its input whenever that rest begins with ESC.                    *)
(***************************************************************************)
S_region1 == <<ESC, "[", "1", "r">>
S_region123 == <<ESC, "[", "1", ";", "2", ";", "3", "r">>
S_unknown == <<ESC, "Z">>
S_escOnly == <<ESC>>
S_csiOpen == <<ESC, "[">>
S_unknownTail == <<ESC, "Z", "a">>
S_homeTail == <<ESC, "[", "H", "a">>
S_resetMode4 == <<ESC, "[", "4", "l">>
S_setMode4 == <<ESC, "[", "4", "h">>
S_setMode20 == <<ESC, "[", "2", "0", "h">>
S_setMode1_4 == <<ESC, "[", "1", ";", "4", "h">>
S_private25 == <<ESC, "[", "?", "2", "5", "h">>
S_keypad == <<ESC, "=">>

\* slices beginning with ESC
SeqData ==
    {S_home, S_far, S_region12, S_region29, S_region1, S_region123, S_unknown, S_escOnly,
     S_csiOpen, S_unknownTail, S_homeTail, S_resetMode4, S_setMode4, S_setMode20,
     S_setMode1_4, S_private25, S_keypad, S_eraseLine, S_insert}

\* writes that set the insert mode in the middle of text
S_a_setMode4_a == S_a \o S_setMode4 \o S_a
S_setMode1_4_lf == S_setMode1_4 \o S_lf
InsertModeData == {S_a_setMode4_a, S_setMode1_4_lf}

\* ConsoleWindow.write, line 394: 'remove = self._control_seq(data[i:])'
ControlSeqStep(data) ==
    /\ err = "ok"
    /\ nops < MaxOps
    /\ trip.phase = 0
    /\ Becomes(ControlSeq(Self, data).con, "_control_seq", data)
    /\ ret' = IF Ok(ControlSeq(Self, data).con) THEN ControlSeq(Self, data).remove ELSE NoRet
    /\ nops' = nops + 1
    /\ UNCHANGED <<trip, mgr, hist, fs>>

NextCtl ==
    \/ \E data \in TextData \cup InsertModeData : Write(data)
    \/ \E data \in SeqData : ControlSeqStep(data)

SpecCtl == Init /\ [][NextCtl]_vars

(***************************************************************************)
(* The drawing style: writes of SGR sequences (ESC [ ... m).                *)
(***************************************************************************)
\* ESC [ p1 ; p2 ; ... m
RECURSIVE Params(_)
Params(ps) ==
    IF Len(ps) = 1 THEN DecStr(ps[1]) ELSE DecStr(ps[1]) \o <<";">> \o Params(Tail(ps))

Sgr(ps) == <<ESC, "[">> \o Params(ps) \o <<"m">>

\* the attribute codes of lines 629-636 and the code that clears each
SetCodes == {1, 2, 4, 5, 7, 8}
ClearCode(n) == IF n \in {1, 2} THEN 21 ELSE 20 + n

\* palette indices written as 38;5;n and 48;5;n
PaletteIdx == {1, 9, 16, 196, 244}

\* parameter lists with a malformed 38/48 sub-sequence at their head
Malformed256 ==
    {<<38, 9, 1>>, <<48, 7, 4, 31>>, <<38, 5>>, <<38, 2, 1, 2>>, <<48>>, <<38, 3, 42>>}

SgrData ==
    {Sgr(<<n>>) : n \in SetCodes \cup {ClearCode(k) : k \in SetCodes} \cup {0, 31, 42, 39, 49}}
    \cup {Sgr(<<a, 5, n>>) : a \in {38, 48}, n \in PaletteIdx}
    \cup {Sgr(ps) : ps \in Malformed256}
    \cup {Sgr(<<38, 2, 255, 0, 0>>), Sgr(<<1, 48, 2, 0, 0, 200>>)}

NextSgr == \E data \in SgrData \cup {S_a} : Write(data)

SpecSgr == InitStd /\ [][NextSgr]_vars

(***************************************************************************)
(* The console with its window, as main_loop drives it: every write and     *)
(* every resize is followed by a refresh.                                   *)
(***************************************************************************)
\* main_loop, line 1112: the refresh before the loop
FirstRefresh ==
    /\ last.op = "init"
    /\ Becomes(ConsoleRefresh(Self), "refresh", <<>>)
    /\ UNCHANGED <<nops, trip, ret, mgr, hist, fs>>

\* main_loop, lines 1125-1127 and 1129-1131: console.write(...); self.refresh()
WriteRefresh(data) ==
    /\ err = "ok"
    /\ last.op # "init"
    /\ nops < MaxOps
    /\ Becomes(ConsoleRefresh(ConsoleWrite(Self, data)), "write_refresh", data)
    /\ nops' = nops + 1
    /\ UNCHANGED <<trip, ret, mgr, hist, fs>>

\* ScreenManager.resize: console.resize(height - 1, width, 0, 0) ... self.refresh()
ResizeRefresh(h, w) ==
    /\ err = "ok"
    /\ last.op # "init"
    /\ nops < MaxOps
    /\ Becomes(ConsoleRefresh(ConsoleResize(Self, h, w)), "resize_refresh", <<h, w>>)
    /\ nops' = nops + 1
    /\ UNCHANGED <<trip, ret, mgr, hist, fs>>

NextScr ==
    \/ FirstRefresh
    \/ \E data \in WriteData : WriteRefresh(data)
    \/ \E h \in Heights, w \in Widths : ResizeRefresh(h, w)

SpecScr == Init /\ [][NextScr]_vars

(***************************************************************************)
(* The keys: main_loop reads the host input and writes it to the child.     *)
(***************************************************************************)
MaxKeys == 2

\* what os.read(fd, 1024) returns in the model: one key
Keys == {<<"+">>, <<"-">>, <<"*">>, <<"x">>}

\* main_loop, lines 1115-1118: key = self.get_key(); if key:
\* self.proc.stdin.write(key); self.refresh()
Key(key) ==
    /\ err = "ok"
    /\ Len(mgr.child_in) < MaxKeys
    /\ Becomes(ConsoleRefresh(Self), "key", key)
    /\ mgr' = [mgr EXCEPT !.child_in = @ \o key]
    /\ UNCHANGED <<nops, trip, ret, hist, fs>>

\* the console's operations, scrollback included, and the keys
NextKeys ==
    \/ \E data \in TextData : Write(data)
    \/ \E delta \in ScrollDeltas : Scroll(delta)
    \/ DeactivateScroll
    \/ \E key \in Keys : Key(key)

SpecKeys == InitStd /\ [][NextKeys]_vars

(***************************************************************************)
(* ScreenManager.main_loop, statement by statement, with the host terminal  *)
(* (its size, SIGWINCH and SIGCONT) and the child (its output, its exit).   *)
(* A signal handler runs between two statements of the loop.                *)
(***************************************************************************)
MaxSig == 2

\* what the child writes in the model
OutData == {S_a, S_lf, S_setMode4}

\* the sizes of the host terminal
HostSizes == {<<3, 2>>, <<4, 4>>}

\* a statement that leaves the console alone
Goto(pc) ==
    /\ mgr' = [mgr EXCEPT !.pc = pc,
                          !.iters = IF mgr.child = "exited" /\ pc = "get_key"
                                    THEN @ + 1 ELSE @]
    /\ UNCHANGED <<console, err, nops, last, trip, ret, screen, hist, fs>>

\* the characters of the strings of q, in order
RECURSIVE Flatten(_)
Flatten(q) == IF q = <<>> THEN <<>> ELSE Head(q) \o Flatten(Tail(q))

\* a statement that leaves the console as c: an exception leaves the loop
GotoWith(c, op, arg, pc) ==
    /\ Becomes(c, op, arg)
    /\ mgr' = [mgr EXCEPT !.pc = IF Ok(c) THEN pc ELSE "finally"]
    /\ UNCHANGED <<trip, ret, hist, fs>>

\* lines 1103-1109: the handlers are installed, the child is started and
\* told the size of the console
LoopStart ==
    /\ mgr.pc = "main_loop"
    /\ mgr' = [mgr EXCEPT !.pc = "refresh", !.child = "running", !.pty = size,
                          !.host = <<size[1] + 1, size[2]>>,
                          !.hw = <<size[1] + 1, size[2]>>, !.winch = @ + 1]
    /\ UNCHANGED <<console, err, nops, last, trip, ret, screen, hist, fs>>

\* line 1112
LoopRefresh ==
    /\ mgr.pc = "refresh"
    /\ GotoWith(ConsoleRefresh(Self), "refresh", <<>>, "get_key")
    /\ UNCHANGED nops

\* lines 1115-1118, a key being there
LoopKey(key) ==
    /\ mgr.pc = "get_key"
    /\ Len(mgr.child_in) < MaxKeys
    /\ Becomes(ConsoleRefresh(Self), "key", key)
    /\ mgr' = [mgr EXCEPT !.pc = "resize_event", !.child_in = @ \o key]
    /\ UNCHANGED <<nops, trip, ret, hist, fs>>

\* lines 1115-1116, no key being there
LoopNoKey ==
    /\ mgr.pc = "get_key"
    /\ Goto("resize_event")

\* line 1120: if self.resize_event
LoopResizeEvent ==
    /\ mgr.pc = "resize_event"
    /\ Goto(IF mgr.resize_event THEN "get_hw" ELSE "poll")

\* resize, line 1072: height, width = get_hw(sys.stdout)
ResizeGetHw ==
    /\ mgr.pc = "get_hw"
    /\ mgr' = [mgr EXCEPT !.pc = "resize", !.hw = mgr.host, !.unserved = FALSE]
    /\ UNCHANGED <<console, err, nops, last, trip, ret, screen, hist, fs>>

\* resize, lines 1073-1078: the windows are resized, console.resize(height - 1, width, 0, 0)
ResizeWindows ==
    /\ mgr.pc = "resize"
    /\ GotoWith(ConsoleResize(Self, mgr.hw[1] - 1, mgr.hw[2]), "resize",
                <<mgr.hw[1] - 1, mgr.hw[2]>>, "set_hw")
    /\ UNCHANGED nops

\* resize, lines 1080-1081: set_hw(self.proc.stdout, ...); send_signal(SIGWINCH)
ResizeSetHw ==
    /\ mgr.pc = "set_hw"
    /\ mgr' = [mgr EXCEPT !.pc = "clear_event", !.pty = size, !.winch = @ + 1]
    /\ UNCHANGED <<console, err, nops, last, trip, ret, screen, hist, fs>>

\* resize, line 1083: self.resize_event = False
ResizeClearEvent ==
    /\ mgr.pc = "clear_event"
    /\ mgr' = [mgr EXCEPT !.pc = "resize_refresh", !.resize_event = FALSE]
    /\ UNCHANGED <<console, err, nops, last, trip, ret, screen, hist, fs>>

\* resize, lines 1085-1086: self.screen.clear(); self.refresh()
ResizeRefreshed ==
    /\ mgr.pc = "resize_refresh"
    /\ GotoWith(ConsoleRefresh(Self), "refresh", <<>>, "poll")
    /\ UNCHANGED nops

\* lines 1122-1123: if self.proc.poll() is not None: break
LoopPoll ==
    /\ mgr.pc = "poll"
    /\ Goto(IF mgr.child = "running" THEN "read_stdout" ELSE "finally")

\* the statement after the read from stream pc
AfterRead(pc) == IF pc = "read_stdout" THEN "read_stderr" ELSE "napms"

\* lines 1127-1128 and 1131-1132 leaving the console as c: what the console
\* handed to reply_query has been written to the child's stdin (line 1107)
ReadWith(c, data, pc) ==
    /\ Becomes(c, "write_refresh", data)
    /\ mgr' = [mgr EXCEPT !.pc = IF Ok(c) THEN pc ELSE "finally",
                          !.child_in = @ \o Flatten(c.replied)]
    /\ UNCHANGED <<trip, ret, hist, fs>>

\* lines 1125-1127 and 1129-1131, the stream being readable
LoopRead(pc, data) ==
    /\ mgr.pc = pc
    /\ mgr.child = "running"
    /\ nops < MaxOps
    /\ ReadWith(ConsoleRefresh(ConsoleWrite(Self, data)), data, AfterRead(pc))
    /\ nops' = nops + 1

\* lines 1125 and 1129, the stream not being readable
LoopNoRead(pc) ==
    /\ mgr.pc = pc
    /\ Goto(AfterRead(pc))

\* line 1133: curses.napms(5)
LoopNap ==
    /\ mgr.pc = "napms"
    /\ Goto("get_key")

\* the finally block without lines 1139-1140
LoopFinally_NoKill ==
    /\ mgr.pc = "finally"
    /\ mgr' = [mgr EXCEPT !.pc = "done"]
    /\ UNCHANGED <<console, err, nops, last, trip, ret, screen, hist, fs>>

\* lines 1134-1140: the handlers are restored and the child, if it still
\* runs, is killed
LoopFinally ==
    /\ mgr.pc = "finally"
    /\ mgr' = [mgr EXCEPT !.pc = "done",
                          !.child = IF @ = "running" THEN "killed" ELSE @]
    /\ UNCHANGED <<console, err, nops, last, trip, ret, screen, hist, fs>>

\* the statements during which the handlers of main_loop are installed
Handled ==
    {"refresh", "get_key", "resize_event", "get_hw", "resize", "set_hw", "clear_event",
     "resize_refresh", "poll", "read_stdout", "read_stderr", "napms"}

\* sigwinch and sigcont, lines 1096-1100, after the host terminal took size hw
Signal(hw) ==
    /\ mgr.pc \in Handled
    /\ mgr.nsig < MaxSig
    /\ mgr' = [mgr EXCEPT !.host = hw, !.resize_event = TRUE, !.unserved = TRUE,
                          !.nsig = @ + 1]
    /\ UNCHANGED <<console, err, nops, last, trip, ret, screen, hist, fs>>

\* the child exits
ChildExit ==
    /\ mgr.child = "running"
    /\ mgr' = [mgr EXCEPT !.child = "exited"]
    /\ UNCHANGED <<console, err, nops, last, trip, ret, screen, hist, fs>>

\* the statements of main_loop
MainStep ==
    \/ LoopStart
    \/ LoopRefresh
    \/ LoopKey(<<"x">>)
    \/ LoopNoKey
    \/ LoopResizeEvent
    \/ ResizeGetHw
    \/ ResizeWindows
    \/ ResizeSetHw
    \/ ResizeClearEvent
    \/ ResizeRefreshed
    \/ LoopPoll
    \/ \E pc \in {"read_stdout", "read_stderr"}, data \in OutData : LoopRead(pc, data)
    \/ \E pc \in {"read_stdout", "read_stderr"} : LoopNoRead(pc)
    \/ LoopNap
    \/ LoopFinally

NextLoop ==
    \/ MainStep
    \/ \E hw \in HostSizes : Signal(hw)
    \/ ChildExit

\* the manager starts on a host terminal of 3 rows
InitLoop == InitWith({2})

SpecLoop == InitLoop /\ [][NextLoop]_vars

(***************************************************************************)
(* A fresh console fed whole lines: each write is a text shorter than the   *)
(* window is wide, ended by LF.                                             *)
(***************************************************************************)
LineTexts == {<<>>, <<"a">>, <<"b">>}

\* console.write(text + '\n')
WriteLn(text) ==
    /\ err = "ok"
    /\ nops < MaxOps
    /\ Becomes(ConsoleWrite(Self, Append(text, LF)), "writeln", text)
    /\ hist' = Append(hist, text)
    /\ nops' = nops + 1
    /\ UNCHANGED <<trip, ret, mgr, fs>>

NextHist == \E text \in LineTexts : WriteLn(text)

SpecHist == Init /\ [][NextHist]_vars

(***************************************************************************)
(* Properties.                                                              *)
(***************************************************************************)
\* the real-num column of the buffer
Nums == [i \in 1..Len(lines) |-> lines[i].num]

\* C1: in every reachable state the line buffer is non-empty and the cursor's
\* row exists in it: 0 <= offset + cursor.y < len(lines).
C1_CursorRowExists ==
    /\ Len(lines) > 0
    /\ 0 <= offset + cursor.y
    /\ offset + cursor.y < Len(lines)

\* C2: after every public operation len(lines) <= history_size.
C2_HistoryCap == Len(lines) <= HistorySize

\* C3: while auto_scroll is true, display_offset == offset.
C3_AutoScrollFollows == auto_scroll => display_offset = offset

\* C4: in every reachable state 0 <= display_offset <= len(lines) - 1.
C4_DisplayOffsetInBuffer == 0 <= display_offset /\ display_offset <= Len(lines) - 1

\* C5: the real-num sequence of the line buffer is non-decreasing.
C5_RealNumMonotone == \A i \in 1..(Len(lines) - 1) : lines[i].num <= lines[i + 1].num

\* C6: offset and display_offset are never negative.
C6_OffsetsNonNegative == offset >= 0 /\ display_offset >= 0

\* C10: the scroll region satisfies 0 <= top <= bottom <= height - 1.
C10_ScrollAreaInViewport ==
    /\ 0 <= scroll_area[1]
    /\ scroll_area[1] <= scroll_area[2]
    /\ scroll_area[2] <= size[1] - 1

\* C10 witness: ESC[2;9r (bottom beyond the height) has set the region
C10_Witness ==
    /\ err = "ok"
    /\ last.op = "write"
    /\ last.arg = S_region29
    /\ scroll_area = <<1, size[1] - 1>>

(***************************************************************************)
(* Reflow.                                                                  *)
(***************************************************************************)
\* the rows of ls whose real-num is n, in buffer order
GroupRows(ls, n) == SelectSeq(ls, LAMBDA l : l.num = n)

\* the real-nums of ls in order of first appearance
RECURSIVE NumOrder(_)
NumOrder(ls) ==
    IF ls = <<>> THEN <<>>
    ELSE LET rest == NumOrder(Tail(ls))
         IN  IF rest # <<>> /\ rest[1] = ls[1].num THEN rest ELSE <<ls[1].num>> \o rest

\* the text of the rows put end to end
RECURSIVE ConcatRows(_)
ConcatRows(rows) ==
    IF rows = <<>> THEN <<>> ELSE FSText(rows[1].content) \o ConcatRows(Tail(rows))

\* text padded with spaces to a multiple of w cells
PadToWidth(t, w) == t \o Repeat(SP, (w - (Len(t) % w)) % w)

\* the rows of one real line joined: every row but the last counted as
\* w-cell rows, right-padded with spaces
RECURSIVE JoinRows(_, _)
JoinRows(rows, w) ==
    IF rows = <<>> THEN <<>>
    ELSE IF Len(rows) = 1 THEN FSText(rows[1].content)
    ELSE PadToWidth(FSText(rows[1].content), w) \o JoinRows(Tail(rows), w)

\* the text of row i of ls as w cells (blank cells are spaces)
RowCells(ls, i, w) == PadToWidth(FSText(ls[i].content), w)

\* ls without the blank rows at its end
RECURSIVE DropBlankTail(_)
DropBlankTail(ls) ==
    IF ls # <<>> /\ StrRstrip(FSText(ls[Len(ls)].content)) = <<>>
    THEN DropBlankTail(SubSeq(ls, 1, Len(ls) - 1))
    ELSE ls

\* C7: a width round trip w1 -> w2 -> w1 (height unchanged) of a console fed
\* printable characters and LF only leaves a buffer whose rows hold the same
\* text, cell for cell, as before the two resizes (round trips during which
\* the history cap dropped a row are left out, and so are blank rows at the
\* end of the buffer).
C7_ReflowRoundTrip ==
    (trip.phase = 2 /\ ~trip.trimmed /\ err = "ok") =>
        LET now == DropBlankTail(lines)
            was == DropBlankTail(trip.lines)
        IN  /\ Len(now) = Len(was)
            /\ \A i \in 1..Len(now) : RowCells(now, i, size[2]) = RowCells(was, i, size[2])

\* C8: a width-changing resize is lossless per real line: group order and
\* real-nums are preserved and the rows of each group, concatenated, are the
\* join of the group's rows before the resize (resizes during which the
\* history cap dropped a row are left out).
C8_ReflowLossless ==
    [][(trip'.phase # trip.phase /\ size'[2] # size[2] /\ err' = "ok"
           /\ "trim" \notin last'.ev) =>
          /\ NumOrder(lines') = NumOrder(lines)
          /\ \A i \in 1..Len(lines) :
                ConcatRows(GroupRows(lines', lines[i].num))
                  = JoinRows(GroupRows(lines, lines[i].num), size[2])]_vars

\* C9: a real line soft-wrapped over several rows, once the console is
\* resized to a width at least its length, is held in exactly one row and no
\* other row carries its real-num.
C9_WrappedLineMerged ==
    [][(trip.phase = 0 /\ trip'.phase = 1 /\ err' = "ok") =>
          \A i \in 1..Len(lines) :
             LET rows == GroupRows(lines, lines[i].num)
             IN  (Len(rows) > 1 /\ Len(JoinRows(rows, size[2])) <= size'[2]) =>
                    Len(GroupRows(lines', lines[i].num)) = 1]_vars

\* C11: parser totality: for every slice beginning with ESC (the set-mode
\* sequences of C12 left aside) the control-sequence step returns normally
\* with a count between 1 and the length of the slice: the length of the match
\* when a pattern of the table matched, and otherwise exactly 1 with an error
\* logged and the console unchanged.
C11_ParserTotality ==
    [][(last'.op = "_control_seq" /\ nops' # nops
            /\ MatchControlSeq(last'.arg).fun # "_ctl_set_mode") =>
          /\ err' = "ok"
          /\ ret' \in 1..Len(last'.arg)
          /\ IF MatchControlSeq(last'.arg).fun # "none"
             THEN ret' = MatchControlSeq(last'.arg).len
             ELSE ret' = 1 /\ "log_error" \in last'.ev /\ UNCHANGED console]_vars

\* the console fields of the object c
Fields(c) ==
    <<<<c.height, c.width>>, c.lines, c.offset, c.cursor, c.scroll_area, c.attr, c.fg, c.bg,
      c.display_offset, c.auto_scroll, c.redraw>>

\* C12: setting the insert mode (ESC[4h, alone or in a parameter list) is
\* logged and otherwise ignored: a write that holds the sequence ends
\* normally and leaves the console as the same write without the sequence
\* leaves it.
C12_InsertModeIgnored ==
    [][/\ (last'.op = "write" /\ nops' # nops /\ last'.arg = S_a_setMode4_a) =>
            /\ err' = "ok"
            /\ console' = Fields(ConsoleWrite(Self, S_a \o S_a))
       /\ (last'.op = "write" /\ nops' # nops /\ last'.arg = S_setMode1_4_lf) =>
            /\ err' = "ok"
            /\ console' = Fields(ConsoleWrite(Self, S_lf))]_vars
\* C14: for each attribute, setting it (codes 1, 2, 4, 5, 7, 8) and then
\* sending its clear code (21 for bold and dim, 24 underline, 25 blink, 27
\* reverse, 28 invisible) leaves that bit unset in the current style, with fg
\* and bg unchanged.
C14_ClearCodesClear ==
    [][\A n \in SetCodes :
          (last.op = "write" /\ last.arg = Sgr(<<n>>)
              /\ last'.arg = Sgr(<<ClearCode(n)>>) /\ nops' # nops) =>
             /\ err' = "ok"
             /\ attr' \cap AttrSetBits(n) = {}
             /\ UNCHANGED <<fg, bg>>]_vars

\* the 256-colour decoding of lines 661-668 for the cube and the grey ramp
Decode256(n) ==
    IF n < 232
    THEN ApproximateColor((((n - 16) \div 36) * 256) \div 6,
                          ((((n - 16) \div 6) % 6) * 256) \div 6,
                          (((n - 16) % 6) * 256) \div 6)
    ELSE ApproximateColor(((n - 232) * 256) \div 23, ((n - 232) * 256) \div 23,
                          ((n - 232) * 256) \div 23)

\* C15: SGR 38;5;n sets fg, and 48;5;n sets bg, to one of the 8 base colours
\* for every palette index n: a base colour for n in 0..15 (n itself below
\* 8), the approximation of the cube entry or grey level from 16 on; the
\* other colour and the attribute bits are unchanged.
C15_PaletteSetsColour ==
    [][\A n \in PaletteIdx :
          /\ (last'.op = "write" /\ last'.arg = Sgr(<<38, 5, n>>) /\ nops' # nops) =>
                /\ fg' \in 0..7
                /\ n < 8 => fg' = n
                /\ n >= 16 => fg' = Decode256(n)
                /\ UNCHANGED <<bg, attr>>
          /\ (last'.op = "write" /\ last'.arg = Sgr(<<48, 5, n>>) /\ nops' # nops) =>
                /\ bg' \in 0..7
                /\ n < 8 => bg' = n
                /\ n >= 16 => bg' = Decode256(n)
                /\ UNCHANGED <<fg, attr>>]_vars

\* C16: when the 38/48 sub-sequence at the head of an SGR sequence is
\* malformed (selector other than 2 or 5, or too few tokens), no error is
\* raised and the remaining parameters are skipped: attr, fg and bg are
\* unchanged.
C16_MalformedSkipsRest ==
    [][\A ps \in Malformed256 :
          (last'.op = "write" /\ last'.arg = Sgr(ps) /\ nops' # nops) =>
             err' = "ok" /\ UNCHANGED <<attr, fg, bg>>]_vars
\* the character of the buffer that belongs at row r, column x of the display
BufferChar(r, x) ==
    IF display_offset + r < Len(lines) /\ x < FSLen(lines[display_offset + r + 1].content)
    THEN FSText(lines[display_offset + r + 1].content)[x + 1]
    ELSE SP

\* C17: after the refresh that follows a write, every cell of the display
\* shows the character of the buffer at rows display_offset .. display_offset
\* + height - 1 (a blank where the buffer has no row or the row is shorter).
C17_DisplayMatchesBuffer ==
    (last.op = "write_refresh" /\ err = "ok") =>
        \A r \in 0..(size[1] - 1), x \in 0..(size[2] - 1) :
            screen[r + 1][x + 1].ch = BufferChar(r, x)
\* C13: in scrollback mode the keys '+', '-' and '*' are consumed by the
\* manager and not forwarded to the child, '*' leaving scrollback
\* (display_offset back to offset, auto_scroll on); every other key is
\* appended to what the child received.
C13_ScrollbackKeys ==
    [][(last'.op = "key" /\ mgr' # mgr /\ ~auto_scroll) =>
          /\ last'.arg \in {<<"+">>, <<"-">>, <<"*">>} => mgr'.child_in = mgr.child_in
          /\ last'.arg = <<"*">> => auto_scroll' /\ display_offset' = offset'
          /\ last'.arg = <<"x">> => mgr'.child_in = mgr.child_in \o <<"x">>]_vars

\* C18: a resize signal is never lost: while main_loop runs, a signal that
\* arrived after the last read of the host size, and that came with another
\* size than the one read, leaves the latch set, so that a resize with the
\* size of the host is still to come.
C18_SignalNotLost ==
    (mgr.unserved /\ mgr.host # mgr.hw /\ mgr.pc \in Handled) => mgr.resize_event

\* the statements that wait for the host or the child (select with a zero
\* timeout, poll, napms) can always be executed
NonBlocking ==
    /\ mgr.pc = "get_key" => ENABLED LoopNoKey
    /\ mgr.pc = "poll" => ENABLED LoopPoll
    /\ mgr.pc = "read_stdout" => ENABLED LoopNoRead("read_stdout")
    /\ mgr.pc = "read_stderr" => ENABLED LoopNoRead("read_stderr")
    /\ mgr.pc = "napms" => ENABLED LoopNap
    /\ mgr.pc = "finally" => ENABLED LoopFinally

\* C19: once the child has exited, main_loop terminates at its next exit
\* check: it begins at most one more iteration, during which no statement
\* blocks, and passes no exit check without leaving; and the child is never
\* running once main_loop is done, however the loop was left.
C19_LoopEnds ==
    /\ mgr.pc = "done" => mgr.child # "running"
    /\ mgr.iters <= 1
    /\ (mgr.child = "exited" /\ mgr.pc \in {"read_stdout", "read_stderr", "napms"})
          => mgr.iters = 0
    /\ NonBlocking

\* main_loop was left by an exception while the child ran, and killed it
C19_Witness == mgr.pc = "done" /\ mgr.child = "killed" /\ err # "ok"
\* the last n elements of the sequence q
LastOf(q, n) == SubSeq(q, Len(q) - n + 1, Len(q))

\* the texts of the buffer rows
RowTexts == [i \in 1..Len(lines) |-> FSText(lines[i].content)]

\* the console with nb rows more than the history holds, before the trim
Overfull(nb) == [Self EXCEPT !.lines = lines \o [i \in 1..nb |-> Line(EmptyFS, 0)]]

\* C20: after k lines were written to a fresh console, each ended by LF, the
\* buffer holds min(history_size, k + 1) rows, which are the most recent ones
\* in the order they were written (the last one being the empty row of the
\* cursor); and a trim of nb rows drops them from the front, lowers offset
\* by nb and display_offset by nb, clamped at 0.
C20_HistoryCapLaw ==
    /\ err = "ok" =>
          /\ Len(lines) = Min(HistorySize, Len(hist) + 1)
          /\ RowTexts = LastOf(Append(hist, <<>>), Min(HistorySize, Len(hist) + 1))
    /\ Len(lines) = HistorySize =>
          \A nb \in 1..2 :
             /\ CheckHistorySize(Overfull(nb)).lines
                   = LastOf(Overfull(nb).lines, HistorySize)
             /\ CheckHistorySize(Overfull(nb)).offset = offset - nb
             /\ CheckHistorySize(Overfull(nb)).display_offset = Max(0, display_offset - nb)

\* the history was trimmed by the last write, for the second time at least
C20_Witness ==
    /\ last.op = "writeln" /\ "trim" \in last.ev
    /\ Len(hist) > HistorySize /\ Len(lines) = HistorySize /\ err = "ok"

(***************************************************************************)
(* Scrollback on its own: text, scroll and deactivate_scroll.               *)
(***************************************************************************)
NextScroll ==
    \/ \E data \in TextData : Write(data)
    \/ \E delta \in ScrollDeltas : Scroll(delta)
    \/ DeactivateScroll

SpecScroll == Init /\ [][NextScroll]_vars

\* C21: scroll(delta) changes nothing of the console when
\* display_offset + delta < 0; otherwise it adds delta to display_offset,
\* clears auto_scroll, sets redraw and leaves size, lines, offset, cursor,
\* scroll_area, the style and the window as they were; deactivate_scroll sets
\* display_offset to offset, auto_scroll and redraw, and nothing else.
C21_ScrollFrame ==
    [][/\ last'.op = "scroll" =>
             IF display_offset + last'.arg[1] < 0
             THEN UNCHANGED <<console, screen, err>>
             ELSE /\ display_offset' = display_offset + last'.arg[1]
                  /\ ~auto_scroll' /\ redraw'
                  /\ UNCHANGED <<size, lines, offset, cursor, scroll_area,
                                 attr, fg, bg, screen, err>>
       /\ last'.op = "deactivate_scroll" =>
             /\ display_offset' = offset /\ auto_scroll' /\ redraw'
             /\ UNCHANGED <<size, lines, offset, cursor, scroll_area,
                            attr, fg, bg, screen, err>>]_vars

\* scrollback was entered, one row up, from a buffer that had scrolled
C21_Witness ==
    /\ last.op = "scroll" /\ last.arg = <<-1>> /\ ~auto_scroll
    /\ offset > 0 /\ display_offset = offset - 1

(***************************************************************************)
(* FormattedString on its own: objects built from single runs by +, sliced  *)
(* and stripped, and used as the content of a buffer row that _update_line  *)
(* writes to.  No object is longer than MaxLen, the width of that row.      *)
(***************************************************************************)
MaxLen == 3

FSStyles ==
    { [attr |-> {}, fg |-> -1, bg |-> -1],
      [attr |-> {}, fg |-> -1, bg |-> 1],
      [attr |-> {"A_BOLD"}, fg |-> 2, bg |-> -1] }

FSTexts == {<<"a">>, <<SP>>, <<"a", SP>>}

FSRuns == {FormattedString(t, st.attr, st.fg, st.bg) : t \in FSTexts, st \in FSStyles}

InitFS == InitAll({2}, {MaxLen}, FSRuns \cup {EmptyFS})

\* the object becomes s
FsBecomes(s, op, arg) ==
    /\ fs' = s
    /\ last' = [op |-> op, arg |-> arg, ev |-> {}]
    /\ UNCHANGED <<console, screen, nops, trip, ret, mgr, hist>>

\* FormattedString.__add__
FsAdd(r) ==
    /\ err = "ok"
    /\ FSLen(fs) + FSLen(r) <= MaxLen
    /\ FsBecomes(FSAdd(fs, r), "add", r)
    /\ UNCHANGED err

\* FormattedString.__getitem__ with a slice
FsSlice(a, b) ==
    /\ err = "ok"
    /\ FsBecomes(FSSlice(fs, a, b), "slice", <<a, b>>)
    /\ UNCHANGED err

\* FormattedString.rstrip
FsRstrip ==
    /\ err = "ok"
    /\ FsBecomes(FSRstrip(fs), "rstrip", <<>>)
    /\ UNCHANGED err

\* the console whose only buffer row holds s
RowConsole(s) == [Self EXCEPT !.lines = <<Line(s, 0)>>]

\* ConsoleWindow._update_line(0, x, r) on the row that holds fs
FsUpdateLine(x, r) ==
    /\ err = "ok"
    /\ FsBecomes(UpdateLine(RowConsole(fs), 0, x, r).lines[1].content,
                 "update_line", <<x, r>>)
    /\ err' = UpdateLine(RowConsole(fs), 0, x, r).err

NextFS ==
    \/ \E r \in FSRuns : FsAdd(r)
    \/ \E a \in 0..MaxLen, b \in 0..MaxLen : a <= b /\ FsSlice(a, b)
    \/ FsRstrip
    \/ \E x \in 0..MaxLen, r \in FSRuns : FsUpdateLine(x, r)

SpecFS == InitFS /\ [][NextFS]_vars

\* the characters of a FormattedString, each with its style
RECURSIVE FSCells(_)
FSCells(s) ==
    IF s = <<>> THEN <<>>
    ELSE [i \in 1..Len(s[1].text) |-> Cell(s[1].text[i], s[1].attr, s[1].fg, s[1].bg)]
         \o FSCells(Tail(s))

\* the number of leading cells up to the last one that is not a blank on
\* the default background
KeptLen(cs) ==
    LET S == {i \in 1..Len(cs) : cs[i].bg # -1 \/ cs[i].ch # SP}
    IN  IF S = {} THEN 0 ELSE CHOOSE i \in S : \A j \in S : j <= i

\* C22: rstrip removes exactly the trailing blanks that follow the last cell
\* with a non-default background or a non-blank character, and leaves the
\* characters and styles before them as they were; a run of blanks with a
\* coloured background that _update_line writes at the end of a row is in
\* the row afterwards.
C22_RstripKeepsBackground ==
    [][/\ last'.op = "rstrip" =>
             FSCells(fs') = SubSeq(FSCells(fs), 1, KeptLen(FSCells(fs)))
       /\ (/\ last'.op = "update_line" /\ err' = "ok"
           /\ last'.arg[2][1].bg # -1
           /\ last'.arg[1] + FSLen(last'.arg[2]) >= FSLen(fs)) =>
             /\ FSLen(fs') = last'.arg[1] + FSLen(last'.arg[2])
             /\ SubSeq(FSCells(fs'), last'.arg[1] + 1, FSLen(fs'))
                   = FSCells(last'.arg[2])]_vars

\* a blank on a coloured background was written after the end of a row,
\* and is its last cell, behind the blanks that fill the gap
C22_Witness ==
    /\ last.op = "update_line" /\ err = "ok"
    /\ last.arg[2] = FormattedString(<<SP>>, {}, -1, 1)
    /\ last.arg[1] = 2 /\ FSLen(fs) = 3 /\ Len(fs) = 3
    /\ fs[3].bg = 1 /\ fs[3].text = <<SP>> /\ fs[2].text = <<SP>>

\* C23: len(s) is the number of characters of s; s[0:len(s)] has the runs of
\* s; a slice holds the characters a..b-1 of s, each with its style; and for
\* 0 <= a <= b <= len(s), 0 <= c <= d <= b - a, s[a:b][c:d] has the runs of
\* s[a+c:a+d].
C23_SliceLaws ==
    /\ FSLen(fs) = Len(FSCells(fs))
    /\ FSSlice(fs, 0, FSLen(fs)) = fs
    /\ \A a \in 0..FSLen(fs) : \A b \in a..FSLen(fs) :
          /\ FSCells(FSSlice(fs, a, b)) = SubSeq(FSCells(fs), a + 1, b)
          /\ \A c \in 0..(b - a) : \A d \in c..(b - a) :
                FSSlice(FSSlice(fs, a, b), c, d) = FSSlice(fs, a + c, a + d)

\* a slice was taken out of the middle of an object of several runs
C23_Witness ==
    /\ last.op = "slice" /\ last.arg[1] > 0
    /\ Len(fs) >= 2

\* C24: in every state reached by writes and resizes the cursor is inside
\* the viewport: 0 <= cursor.y <= height - 1 and 0 <= cursor.x <= width
\* (cursor.x = width being the pending wrap), so that the row update of the
\* next printable write finds 0 <= x < width.
C24_CursorInViewport ==
    err = "ok" =>
       /\ 0 <= cursor.y /\ cursor.y <= size[1] - 1
       /\ 0 <= cursor.x /\ cursor.x <= size[2]

(***************************************************************************)
(* Height-only resizes, on a terminal no taller than the history size.      *)
(***************************************************************************)
LowHeights == 1..HistorySize

HeightData == {S_a, S_aaa, S_lf, S_up}

InitHeight == InitAll(LowHeights, {2}, {EmptyFS})

NextHeight ==
    \/ \E data \in HeightData : Write(data)
    \/ \E h \in LowHeights : h # size[1] /\ Resize(h, size[2])

SpecHeight == InitHeight /\ [][NextHeight]_vars

\* C25: a resize that changes the height only leaves the cursor on the same
\* buffer line and column, inside the new viewport; when the height shrinks
\* and the cursor still fits in it, offset, display_offset and cursor.y are
\* unchanged.
C25_HeightResizeKeepsCursor ==
    [][(last'.op = "resize" /\ size'[2] = size[2] /\ err' = "ok") =>
          /\ offset' + cursor'.y = offset + cursor.y
          /\ cursor'.x = cursor.x
          /\ 0 <= cursor'.y /\ cursor'.y <= size'[1] - 1
          /\ (size'[1] < size[1] /\ cursor.y < size'[1]) =>
                /\ UNCHANGED <<offset, display_offset>>
                /\ cursor'.y = cursor.y]_vars

(***************************************************************************)
(* Printable text and LF only, with the strings written kept in hist.       *)
(***************************************************************************)
WrapData == {S_a, S_aaa, S_lf, S_line}

\* ScreenManager.main_loop: self.console.write(data), data being recorded
WriteText(data) ==
    /\ err = "ok"
    /\ nops < MaxOps
    /\ Becomes(ConsoleWrite(Self, data), "write", data)
    /\ nops' = nops + 1
    /\ hist' = Append(hist, data)
    /\ UNCHANGED <<trip, ret, mgr, fs>>

NextWrap == \E data \in WrapData : WriteText(data)

SpecWrap == Init /\ [][NextWrap]_vars

\* the real-nums of the rows that the characters chars make when written at
\* column x of the last of the rows numbered nums, in a viewport w wide: LF
\* starts a row with the next number, a printable character at x = w starts
\* a row with the same number
RECURSIVE WrapNums(_, _, _, _)
WrapNums(chars, nums, x, w) ==
    IF chars = <<>> THEN nums
    ELSE IF Head(chars) = LF
         THEN WrapNums(Tail(chars), Append(nums, nums[Len(nums)] + 1), 0, w)
    ELSE IF x = w
         THEN WrapNums(Tail(chars), Append(nums, nums[Len(nums)]), 1, w)
    ELSE WrapNums(Tail(chars), nums, x + 1, w)

\* C26: after writes of printable characters and LF to a fresh console, the
\* buffer rows are the most recent rows of the text written, numbered so
\* that a row made by a soft wrap has the number of the row before it and a
\* row started by LF has that number plus one.
C26_SoftWrapNumbers ==
    err = "ok" =>
       LET expected == WrapNums(Flatten(hist), <<0>>, 0, size[2])
       IN  /\ Len(lines) <= Len(expected)
           /\ Nums = LastOf(expected, Len(lines))

\* the last write wrapped and trimmed the history, on a terminal taller than
\* the history; the first two rows are one wrapped line, the third another
C26_Witness ==
    /\ last.op = "write" /\ {"soft_wrap", "trim"} \subseteq last.ev /\ err = "ok"
    /\ size[1] > HistorySize /\ Len(hist) > 1 /\ Len(lines) = HistorySize
    /\ lines[1].num = lines[2].num /\ lines[2].num # lines[3].num

\* the content of buffer row i (from 0) in the sequence ls, and whether it exists
HasRow(ls, i) == 0 <= i /\ i < Len(ls)
RowContent(ls, i) == ls[i + 1].content

\* C27: with a scroll region that is not the whole viewport, LF or ESC D on
\* the bottom row of the region moves the rows top+1..bottom of the region
\* one row up, blanks the bottom row, and leaves offset, display_offset,
\* cursor.y, the number of buffer rows and the content of every row outside
\* the region as they were.
C27_RegionScrollDown ==
    [][(/\ last'.op = "write" /\ last'.arg \in {S_lf, S_index}
        /\ cursor.y = scroll_area[2]
        /\ scroll_area # <<0, size[1] - 1>>) =>
          /\ err' = "ok"
          /\ UNCHANGED <<offset, display_offset, scroll_area>>
          /\ cursor'.y = cursor.y
          /\ Len(lines') = Len(lines)
          /\ \A r \in scroll_area[1]..(scroll_area[2] - 1) :
                /\ HasRow(lines, offset + r + 1)
                /\ RowContent(lines', offset + r) = RowContent(lines, offset + r + 1)
          /\ HasRow(lines, offset + scroll_area[2])
          /\ RowContent(lines', offset + scroll_area[2]) = EmptyFS
          /\ \A i \in 0..(Len(lines) - 1) :
                (i < offset + scroll_area[1] \/ i > offset + scroll_area[2]) =>
                   RowContent(lines', i) = RowContent(lines, i)]_vars

\* the content of buffer row i, a row past the end of the buffer being blank
RowOrBlank(ls, i) == IF HasRow(ls, i) THEN RowContent(ls, i) ELSE EmptyFS

\* the parameter of the ESC[nL sequences written in the model
InsertCount(data) == IF data = S_insert THEN 1 ELSE 5

\* C28: ESC[nL with the cursor on or above the bottom row of the scroll
\* region completes, leaves scroll_area, the cursor and offset as they were
\* and the rows above the cursor and below the region bottom untouched,
\* leaves the first min(n, bottom - cursor.y + 1) rows from the cursor blank
\* and the former rows from the cursor on n rows lower, those pushed past
\* the region bottom being dropped.
C28_InsertLines ==
    [][(/\ last'.op = "write" /\ last'.arg \in {S_insert, S_insert5}
        /\ cursor.y <= scroll_area[2]) =>
          LET n == InsertCount(last'.arg)
              cy == offset + cursor.y
              bot == offset + scroll_area[2]
          IN  /\ err' = "ok"
              /\ UNCHANGED <<scroll_area, cursor, offset>>
              /\ \A i \in 0..(Len(lines) - 1) :
                    (i < cy \/ i > bot) =>
                       HasRow(lines', i) /\ RowContent(lines', i) = RowContent(lines, i)
              /\ \A i \in cy..Min(cy + n - 1, bot) : RowOrBlank(lines', i) = EmptyFS
              /\ \A i \in cy..(bot - n) : RowOrBlank(lines', i + n) = RowOrBlank(lines, i)]_vars

(***************************************************************************)
(* Cursor movement: text, and the movement sequences with no parameter,     *)
(* with 0 and with values beyond the viewport.                              *)
(***************************************************************************)
Csi(p, f) == <<ESC, "[">> \o p \o <<f>>

CursorData ==
    {Csi(p, f) : p \in {<<>>, <<"0">>, <<"9">>}, f \in {"A", "B", "C", "D", "d", "G"}}
    \cup {Csi(p, f) : p \in {<<>>, <<"0", ";", "0">>, <<"2", ";", "1">>, <<"9", ";", "9">>},
                      f \in {"H", "f"}}

NextCur ==
    \/ \E data \in {S_a, S_aaa, S_lf} : Write(data)
    \/ \E data \in CursorData : Write(data)
    \/ \E h \in Heights, w \in Widths : Resize(h, w)

SpecCur == Init /\ [][NextCur]_vars

\* m empty rows, each a new real line after the last row of ls
NewRealRows(ls, m) == [j \in 1..m |-> Line(EmptyFS, ls[Len(ls)].num + j)]

\* C29: a cursor movement sequence, whatever its parameters, completes with
\* the cursor inside the viewport, 0 <= y <= height - 1 and
\* 0 <= x <= width - 1; the buffer afterwards is the buffer before, followed
\* by m >= 0 empty rows that are new real lines and cut at the front by the
\* history trim; rows are appended only up to the row the cursor is moved to.
C29_CursorMovesClamped ==
    [][(last'.op = "write" /\ last'.arg \in CursorData) =>
          /\ err' = "ok"
          /\ 0 <= cursor'.y /\ cursor'.y <= size[1] - 1
          /\ 0 <= cursor'.x /\ cursor'.x <= size[2] - 1
          /\ \E m \in 0..MaxH :
                /\ Len(lines') <= Len(lines) + m
                /\ lines' = LastOf(lines \o NewRealRows(lines, m), Len(lines'))
                /\ m = 0 => lines' = lines
                /\ m > 0 => offset' + cursor'.y = Len(lines') - 1]_vars

\* the cursor was sent far beyond the viewport and stopped in its last cell,
\* on a row appended for it
C29_Witness ==
    /\ last.op = "write" /\ last.arg = Csi(<<"9", ";", "9">>, "H") /\ err = "ok"
    /\ "insert_newline" \in last.ev
    /\ cursor = [y |-> size[1] - 1, x |-> size[2] - 1]
    /\ lines[1].content # EmptyFS

(***************************************************************************)
(* Erase characters: text, cursor moves and ESC[nX.                         *)
(***************************************************************************)
EraseData == {Csi(p, "X") : p \in {<<>>, <<"2">>, <<"9">>}}

NextErase ==
    \/ \E data \in {S_a, S_aaa, S_lf, S_home, Csi(<<>>, "C")} : Write(data)
    \/ \E data \in EraseData : Write(data)

SpecErase == InitStd /\ [][NextErase]_vars

\* the w cells of a row that holds s
PadCells(s, w) ==
    [i \in 1..w |-> IF i <= FSLen(s) THEN FSCells(s)[i] ELSE BlankCell]

\* the parameter of the ESC[nX sequences written in the model
EraseCount(data) ==
    IF data = Csi(<<>>, "X") THEN 1 ELSE IF data = Csi(<<"2">>, "X") THEN 2 ELSE 9

\* C30: ESC[nX, n >= 1, completes without error, leaves the cursor where it
\* was, blanks the n cells from the cursor column on, up to the end of the
\* row at most, and leaves every other cell of the buffer as it was.
C30_EraseChars ==
    [][(last'.op = "write" /\ last'.arg \in EraseData) =>
          LET n == EraseCount(last'.arg)
              y == offset + cursor.y + 1
          IN  /\ err' = "ok"
              /\ cursor' = cursor
              /\ Len(lines') = Len(lines)
              /\ \A i \in 1..Len(lines) : \A x \in 1..size[2] :
                    PadCells(lines'[i].content, size[2])[x]
                       = IF i = y /\ x > cursor.x /\ x <= cursor.x + n
                         THEN BlankCell
                         ELSE PadCells(lines[i].content, size[2])[x]]_vars


(***************************************************************************)
(* Queries: the child asks the terminal for its state inside the text it    *)
(* writes, and main_loop hands the replies to the child's stdin.            *)
(***************************************************************************)
S_queryPos == <<ESC, "[", "6", "n">>
S_queryStatus == <<ESC, "[", "5", "n">>

\* text, a query, more text, a second query
S_a_q_a_q == S_a \o S_queryPos \o S_a \o S_queryPos
\* a query on each side of a line feed
S_q_lf_q == S_queryPos \o S_lf \o S_queryPos
\* a status query between a cursor move and a position query
S_far_qs_q == S_far \o S_queryStatus \o S_queryPos
\* three characters, which wrap in a viewport 2 wide, then a query
S_aaa_q == S_aaa \o S_queryPos

\* what the child writes in one read of main_loop
QueryData == {S_a_q_a_q, S_q_lf_q, S_far_qs_q, S_aaa_q, S_lf}

\* main_loop with a child that writes queries, no key and no signal arriving
NextQuery ==
    \/ LoopStart
    \/ LoopRefresh
    \/ LoopNoKey
    \/ LoopResizeEvent
    \/ LoopPoll
    \/ \E pc \in {"read_stdout", "read_stderr"}, data \in QueryData : LoopRead(pc, data)
    \/ \E pc \in {"read_stdout", "read_stderr"} : LoopNoRead(pc)
    \/ LoopNap
    \/ LoopFinally
    \/ ChildExit

SpecQuery == InitLoop /\ [][NextQuery]_vars

\* the report of a cursor at row y, column x, both zero-based
CursorReport(y, x) ==
    <<ESC, "[">> \o DecStr(y + 1) \o <<";">> \o DecStr(x + 1) \o <<"R">>

\* data holds the characters of q from index k on
HasAt(data, k, q) == k + Len(q) - 1 <= Len(data) /\ SubSeq(data, k, k + Len(q) - 1) = q

\* the replies owed to the queries of data from index k on, in the order of
\* the queries: a position query is owed the cursor that a console started as
\* c has once the characters before the query are written to it
RECURSIVE OwedReplies(_, _, _)
OwedReplies(c, data, k) ==
    IF k > Len(data) THEN <<>>
    ELSE IF HasAt(data, k, S_queryPos)
    THEN LET at == ConsoleWrite(c, SubSeq(data, 1, k - 1)).cursor
         IN  CursorReport(at.y, at.x) \o OwedReplies(c, data, k + 1)
    ELSE IF HasAt(data, k, S_queryStatus)
    THEN <<ESC, "[", "0", "n">> \o OwedReplies(c, data, k + 1)
    ELSE OwedReplies(c, data, k + 1)

\* C31: within one write call the effects are applied in stream order: the
\* reply to each ESC [ 6 n of the data is ESC [ y+1 ; x+1 R for the cursor
\* (y, x) reached once every character before that query is applied, pending
\* printable text included, and the replies of one write reach the child's
\* stdin in the order of the queries
C31_RepliesInStreamOrder ==
    [][\A data \in QueryData :
          (mgr.pc \in {"read_stdout", "read_stderr"} /\ nops' = nops + 1
           /\ last'.arg = data /\ err' = "ok")
          => mgr'.child_in = mgr.child_in \o OwedReplies(Self, data, 1)]_vars

\* a write of 'a', query, 'a', query in a viewport 4 wide answered column 2,
\* then column 3
C31_Witness ==
    /\ last.op = "write_refresh"
    /\ last.arg = S_a_q_a_q
    /\ err = "ok"
    /\ mgr.child_in = <<ESC, "[", "1", ";", "2", "R", ESC, "[", "1", ";", "3", "R">>
====
